---- MODULE Spec2Model ----
(***************************************************************************)
(* Model of the koe-no-search engine (package internal/search).            *)
(*                                                                         *)
(*   Spec      : one Search call -- walkers, matcher workers, the closer   *)
(*               goroutine, the result processor, the consumer and the     *)
(*               StopChan.                                                  *)
(*   FairSpec  : Spec with weak fairness on every goroutine of Search.     *)
(*   SpecMatch : the pattern compiler, the quick filter, the match engine  *)
(*               and the constraint check applied to single files.         *)
(*   SpecOps   : HandleFileOperation (copy, move, conflict resolution) run  *)
(*               by concurrent workers on one target directory.             *)
(*   SpecProc  : a FileOperationProcessor, its callers and its workers.     *)
(*   SpecTree  : Search on trees with symbolic links, skipped directories, *)
(*               files whose hash fails and files large enough for mmap.   *)
(*   SpecPool  : the worker goroutines of a FileOperationProcessor running *)
(*               copy tasks under the per-operation timeout.               *)
(*   SpecLog   : the asynchronous logger and goroutines that log.          *)
(*   SpecRP    : a resultProcessor with concurrent add and close calls.    *)
(*   SpecCli   : the Run function of the command line.                     *)
(*   ReadingSpec : Search with a file operation and a reading consumer,    *)
(*               under weak fairness.                                      *)
(*   SpecStop  : SpecPool with a goroutine that calls Stop.                *)
(*   SpecGet   : concurrent Get and Put calls on copyBufferPool.           *)
(*   SpecBatch : one BatchProcessor, add calls and the closing flush.      *)
(*   SpecBuf   : one ResultBuffer of the GUI, Add and Flush calls.         *)
(*                                                                         *)
(* Strings are sequences of one-character strings, so that Base, Ext,      *)
(* ToLower, Contains and the regexp literals are computed, not assumed.    *)
(***************************************************************************)
EXTENDS Integers, Sequences, FiniteSets, TLC

VARIABLES
    mode,          \* which entry point is exercised: "search", "match", ...
    opts,          \* SearchOptions of the call
    patterns,      \* compiledPatterns built by preparePatterns
    lowerCache,    \* patternCache.lowerCache (process global)
    stopClosed,    \* StopChan has been closed
    paths,         \* buffered channel `paths`
    pathsClosed,   \* number of close(paths) calls
    results,       \* buffered channel `results`
    resultsClosed, \* number of close(results) calls
    sendOnClosed,  \* channels on which a send hit a closed channel (panic)
    wpc,           \* walker goroutine: program counter
    wstack,        \* walker goroutine: call stack of walkDirectoryOptimized
    wcall,         \* walker goroutine: argument of the pending call
    wAfterStop,    \* walker goroutine: sends into paths after StopChan closed
    mpc,           \* matcher goroutine: program counter
    mbatch,        \* matcher goroutine: BatchProcessor.batch
    mi,            \* matcher goroutine: index in the batch being processed
    mexit,         \* matcher goroutine: returns after the running flush
    mres,          \* matcher goroutine: SearchResult handed to add
    mAfterStop,    \* matcher goroutine: sends into results after StopChan closed
    seen,          \* resultProcessor.seen
    mu,            \* resultProcessor.mu holder (0 = unlocked)
    addedDup,      \* an add call returned early on a seen hash
    cpc,           \* closer goroutine: program counter
    consumer,      \* consumer of the result channel
    delivered,     \* results received by the consumer, in order
    cur,           \* match mode: file under test
    quickRes,      \* match mode: result of shouldProcessFile
    matchRes,      \* match mode: result of matchesPatterns
    consRes,       \* match mode: result of matchesFileConstraints
    reportRes,     \* match mode: the file would be sent to the result processor
    files,         \* the filesystem: existing path -> content
    clock,         \* time.Now().UnixNano()
    opc,           \* file operation: program counter
    otask,         \* file operation: path and FileOperationOptions
    oinfo,         \* file operation: srcInfo.Size() and the bytes of the opened source
    otarget,       \* file operation: targetPath of the running copy or move
    otmp,          \* file operation: tmpPath of the running copy
    owritten,      \* file operation: bytes written by io.CopyBuffer
    oret,          \* file operation: what HandleFileOperation returned
    olog,          \* file operation: the system calls that succeeded so far
    pcfg,          \* processor: workers, maxQueueSize, maxWorkers
    pstarted,      \* processor: started
    pstopped,      \* processor: stopped
    pqueue,        \* processor: the tasks buffered in opChan
    pqueueClosed,  \* processor: number of close(p.opChan) calls
    pfieldNil,     \* processor: the field p.opChan has been set to nil
    pstopClosed,   \* processor: stopChan closed and ctx cancelled
    pwg,           \* processor: counter of p.wg
    pcurrent,      \* processor: currentWorkers
    pworkers,      \* processor: worker goroutines, in spawning order
    tcall,         \* caller goroutine: the method it calls
    tpc,           \* caller goroutine: program counter
    tret,          \* caller goroutine: what the method returned
    pbusy,         \* worker goroutine: the task handed to processOperation
    preport,       \* task: what processOperation returned to the worker
    perrlog,       \* the paths given to logError by the workers, in order
    readOut,       \* bufferPool: buffers taken by Get and not yet Put back
    copyCount,     \* copyBufferPool.count
    logDisabled,   \* logger: globalLogger.disabled
    logBuffer,     \* logger: the messages buffered in loggerBuffer
    logCall,       \* logging goroutine: the level of its message
    logFate,       \* logging goroutine: its message waits, is queued or dropped
    logWritten,    \* logger: the messages written by processLogs, in order
    cliOpen,       \* command line: the --open flag
    cliResults,    \* command line: what the result channel of Search yields
    cliNext,       \* command line: index of the next result of the range loop
    cliCancelled,  \* command line: ctx is cancelled (interrupt signal)
    cliFound,      \* command line: foundFiles
    cliPc,         \* command line: position in the Run function
    cliRevealed,   \* command line: the paths given to openFileLocation
    sentPaths,     \* history: how often each path was sent into `paths`
    handedPaths,   \* history: how often each path was handed to a batch callback
    gpc,           \* copy buffer pool: position of each goroutine in Get/Put
    bpSize,        \* BatchProcessor.size
    bpBatch,       \* BatchProcessor.batch
    bpCalls,       \* BatchProcessor: the batches its callback was given
    bpAdded,       \* BatchProcessor: the paths given to add, in order
    bpFlushed,     \* BatchProcessor: the closing flush has been called
    rbItems,       \* ResultBuffer.items
    rbChunks,      \* ResultBuffer.chunks
    rbTotal,       \* ResultBuffer.totalItems
    rbFound,       \* *ResultBuffer.foundFiles
    rbLastCount,   \* ResultBuffer.lastCount
    rbElapsed,     \* ResultBuffer: index of the time since lastUpdate
    rbAdded        \* ResultBuffer: the items given to Add, in order

\* the state of the file operations (process.go)
opsVars == << files, clock, opc, otask, oinfo, otarget, otmp, owritten, oret,
              olog >>

\* the state of a FileOperationProcessor and of its callers
procVars == << pcfg, pstarted, pstopped, pqueue, pqueueClosed, pfieldNil,
               pstopClosed, pwg, pcurrent, pworkers, tcall, tpc, tret >>

\* what a worker goroutine knows of the tasks it has run
poolVars == << pbusy, preport, perrlog >>

\* the buffer pools of the process
bufVars == << readOut, copyCount >>

\* the logger and the goroutines that log
logVars == << logDisabled, logBuffer, logCall, logFate, logWritten >>

\* the state beside the engine, the file operations and the buffers
\* the Run function of the command line (cmd/gui/main.go)
cliVars == << cliOpen, cliResults, cliNext, cliCancelled, cliFound, cliPc,
              cliRevealed >>

\* what the pipeline has done with each path so far
histVars == << sentPaths, handedPaths >>

getVars == << gpc >>

batchVars == << bpSize, bpBatch, bpCalls, bpAdded, bpFlushed >>

rbVars == << rbItems, rbChunks, rbTotal, rbFound, rbLastCount, rbElapsed,
             rbAdded >>

\* the components checked on their own
unitVars == << getVars, batchVars, rbVars >>

outerVars == << logVars, cliVars, histVars, unitVars >>

extraVars == << poolVars, bufVars, outerVars >>

fileVars == << opsVars, procVars, extraVars >>

vars == << mode, opts, patterns, lowerCache, stopClosed, paths, pathsClosed,
           results, resultsClosed, sendOnClosed, wpc, wstack, wcall,
           wAfterStop, mpc, mbatch, mi, mexit, mres, mAfterStop, seen, mu,
           addedDup, cpc, consumer, delivered, cur, quickRes, matchRes,
           consRes, reportRes, fileVars >>

searchVars == << stopClosed, paths, pathsClosed, results, resultsClosed,
                 sendOnClosed, wpc, wstack, wcall, wAfterStop, mpc, mbatch,
                 mi, mexit, mres, mAfterStop, seen, mu, addedDup, cpc,
                 consumer, delivered >>

matchVars == << cur, quickRes, matchRes, consRes, reportRes >>

-----------------------------------------------------------------------------
(* Strings *)

UpperLetters ==
    <<"A", "B", "C", "D", "E", "F", "G", "H", "I", "J", "K", "L", "M",
      "N", "O", "P", "Q", "R", "S", "T", "U", "V", "W", "X", "Y", "Z">>

LowerLetters ==
    <<"a", "b", "c", "d", "e", "f", "g", "h", "i", "j", "k", "l", "m",
      "n", "o", "p", "q", "r", "s", "t", "u", "v", "w", "x", "y", "z">>

\* Byte order of the characters used (ASCII).
CharOrder ==
    <<" ", "$", "(", ")", "*", "+", "-", ".", "/", "0", "1", "2", "3", "4",
      "5", "6", "7", "8", "9", "?", "A", "B", "C", "D", "E", "F", "G", "H",
      "I", "J", "K", "L", "M", "N", "O", "P", "Q", "R", "S", "T", "U", "V",
      "W", "X", "Y", "Z", "[", "\\", "]", "^", "_", "a", "b", "c", "d", "e",
      "f", "g", "h", "i", "j", "k", "l", "m", "n", "o", "p", "q", "r", "s",
      "t", "u", "v", "w", "x", "y", "z", "{", "|", "}">>

\* byte value order of a character
CharRank == [c \in {CharOrder[i] : i \in 1..Len(CharOrder)} |->
                CHOOSE i \in 1..Len(CharOrder) : CharOrder[i] = c]

CharCode(c) == CharRank[c]

LowerOf == [c \in {UpperLetters[i] : i \in 1..Len(UpperLetters)} |->
               LowerLetters[CHOOSE i \in 1..Len(UpperLetters) : UpperLetters[i] = c]]

UpperOf == [c \in {LowerLetters[i] : i \in 1..Len(LowerLetters)} |->
               UpperLetters[CHOOSE i \in 1..Len(LowerLetters) : LowerLetters[i] = c]]

IsUpper(c) == c \in DOMAIN LowerOf

IsLower(c) == c \in DOMAIN UpperOf

ToLowerChar(c) == IF IsUpper(c) THEN LowerOf[c] ELSE c

ToUpperChar(c) == IF IsLower(c) THEN UpperOf[c] ELSE c

\* strings.ToLower
ToLower(s) == [i \in 1..Len(s) |-> ToLowerChar(s[i])]

ToUpper(s) == [i \in 1..Len(s) |-> ToUpperChar(s[i])]

\* strings.HasPrefix
HasPrefix(s, p) == Len(p) <= Len(s) /\ SubSeq(s, 1, Len(p)) = p

\* strings.Contains
Contains(s, sub) ==
    \E i \in 0..(Len(s) - Len(sub)) : SubSeq(s, i + 1, i + Len(sub)) = sub

\* strings.ContainsAny
ContainsAny(s, chars) == \E i \in 1..Len(s) : s[i] \in chars

\* string comparison s < t (byte-wise lexicographic)
StrLess(s, t) ==
    \E k \in 1..(Len(t)) :
        /\ \A j \in 1..(k - 1) : j <= Len(s) /\ s[j] = t[j]
        /\ \/ k = Len(s) + 1
           \/ k <= Len(s) /\ CharCode(s[k]) < CharCode(t[k])

RECURSIVE StripTrailingSlashes(_)
StripTrailingSlashes(p) ==
    IF Len(p) > 0 /\ p[Len(p)] = "/"
    THEN StripTrailingSlashes(SubSeq(p, 1, Len(p) - 1))
    ELSE p

\* filepath.Base
Base(path) ==
    IF path = <<>> THEN <<".">>
    ELSE LET p == StripTrailingSlashes(path)
             slashes == {i \in 1..Len(p) : p[i] = "/"}
             last == IF slashes = {} THEN 0
                     ELSE CHOOSE i \in slashes : \A j \in slashes : j <= i
             b == SubSeq(p, last + 1, Len(p))
         IN  IF b = <<>> THEN <<"/">> ELSE b

\* filepath.Ext
Ext(path) ==
    LET dots == {i \in 1..Len(path) :
                    /\ path[i] = "."
                    /\ \A j \in i..Len(path) : path[j] # "/"}
    IN  IF dots = {} THEN <<>>
        ELSE SubSeq(path, CHOOSE i \in dots : \A j \in dots : j <= i, Len(path))

\* filepath.Join(dir, name) for a clean dir and a single element name
Join(dir, name) == dir \o <<"/">> \o name

-----------------------------------------------------------------------------
(* regexp: the literal fragment produced by regexp.QuoteMeta *)

RegexChars == {"^", "$", ".", "*", "+", "?", "(", ")", "[", "]", "{", "}", "|", "\\"}

\* containsRegexChars
containsRegexChars(s) == ContainsAny(s, RegexChars)

RECURSIVE QuoteMeta(_)
\* regexp.QuoteMeta: a backslash before every metacharacter
QuoteMeta(s) ==
    IF s = <<>> THEN <<>>
    ELSE (IF Head(s) \in RegexChars THEN <<"\\", Head(s)>> ELSE <<Head(s)>>)
            \o QuoteMeta(Tail(s))

CaseFlag == <<"(", "?", "i", ")">>

RECURSIVE RegexAtoms(_)
\* The atoms of a compiled expression: an escaped character or an ordinary
\* character is a literal, an unescaped dot matches any character.
RegexAtoms(re) ==
    IF re = <<>> THEN <<>>
    ELSE IF Head(re) = "\\" /\ Len(re) >= 2
         THEN <<[any |-> FALSE, c |-> re[2]]>> \o RegexAtoms(SubSeq(re, 3, Len(re)))
         ELSE <<[any |-> Head(re) = ".", c |-> Head(re)]>> \o RegexAtoms(Tail(re))

\* (*Regexp).MatchString: unanchored search
RegexMatchString(re, s) ==
    LET fold  == HasPrefix(re, CaseFlag)
        atoms == RegexAtoms(IF fold THEN SubSeq(re, 5, Len(re)) ELSE re)
        n     == Len(atoms)
    IN  \E st \in 0..(Len(s) - n) :
            \A k \in 1..n :
                \/ atoms[k].any
                \/ atoms[k].c = s[st + k]
                \/ fold /\ ToLowerChar(atoms[k].c) = ToLowerChar(s[st + k])

-----------------------------------------------------------------------------
(* patternCache.lowerCache *)

EmptyCache == [k \in {} |-> <<>>]

CachePut(cache, k, v) ==
    [x \in (DOMAIN cache) \cup {k} |-> IF x = k THEN v ELSE cache[x]]

\* read through the cache, computing strings.ToLower on a miss
CachedLower(cache, s) == IF s \in DOMAIN cache THEN cache[s] ELSE ToLower(s)

\* the cache after a read-through of s (a miss stores key -> value)
CacheAfterLower(cache, s) ==
    IF s \in DOMAIN cache THEN cache ELSE CachePut(cache, s, ToLower(s))

-----------------------------------------------------------------------------
(* matcher.go: pattern compiler *)

\* one extension of opts.Extensions, lower-cased and given its leading dot
normalizeExtension(ext, ignoreCase) ==
    LET e == IF ignoreCase THEN ToLower(ext) ELSE ext
    IN  IF HasPrefix(e, <<".">>) THEN e ELSE <<".">> \o e

RECURSIVE collectExtensions(_, _, _)
\* the loop over opts.Extensions: drop "", normalize, keep first occurrences
collectExtensions(exts, ignoreCase, acc) ==
    IF exts = <<>> THEN acc
    ELSE LET e == normalizeExtension(Head(exts), ignoreCase)
         IN  IF Head(exts) = <<>> \/ (\E i \in 1..Len(acc) : acc[i] = e)
             THEN collectExtensions(Tail(exts), ignoreCase, acc)
             ELSE collectExtensions(Tail(exts), ignoreCase, Append(acc, e))

RECURSIVE InsertSorted(_, _)
InsertSorted(sorted, x) ==
    IF sorted = <<>> THEN <<x>>
    ELSE IF StrLess(x, Head(sorted)) THEN <<x>> \o sorted
         ELSE <<Head(sorted)>> \o InsertSorted(Tail(sorted), x)

RECURSIVE SortStrings(_)
\* sort.Strings
SortStrings(xs) ==
    IF xs = <<>> THEN <<>>
    ELSE InsertSorted(SortStrings(SubSeq(xs, 1, Len(xs) - 1)), xs[Len(xs)])

\* sort.SearchStrings: the least index (0-based) whose element is >= x
SearchStrings(xs, x) ==
    Cardinality({i \in 1..Len(xs) : StrLess(xs[i], x)})

RECURSIVE compilePatterns(_, _, _)
\* the loop over opts.Patterns; acc carries the two pattern lists and the
\* lower-case cache
compilePatterns(pats, ignoreCase, acc) ==
    IF pats = <<>> THEN acc
    ELSE LET pat == Head(pats)
         IN  IF pat = <<>>
             THEN compilePatterns(Tail(pats), ignoreCase, acc)
             ELSE IF ~containsRegexChars(pat)
             THEN compilePatterns(Tail(pats), ignoreCase,
                    [acc EXCEPT
                       !.simplePatterns =
                           Append(@, IF ignoreCase
                                     THEN CachedLower(acc.cache, pat)
                                     ELSE pat),
                       !.cache = IF ignoreCase
                                 THEN CacheAfterLower(acc.cache, pat)
                                 ELSE @])
             ELSE compilePatterns(Tail(pats), ignoreCase,
                    [acc EXCEPT
                       !.patterns =
                           Append(@, IF ignoreCase
                                     THEN CaseFlag \o QuoteMeta(pat)
                                     ELSE QuoteMeta(pat))])

\* preparePatterns: the compiled pattern set and the cache it leaves behind
preparePatterns(o, cache) ==
    LET exts == collectExtensions(o.Extensions, o.IgnoreCase, <<>>)
        acc  == compilePatterns(o.Patterns, o.IgnoreCase,
                    [patterns |-> <<>>, simplePatterns |-> <<>>, cache |-> cache])
    IN  [patterns       |-> acc.patterns,
         simplePatterns |-> acc.simplePatterns,
         extensions     |-> IF Len(exts) > 1 THEN SortStrings(exts) ELSE exts,
         cache          |-> acc.cache]

-----------------------------------------------------------------------------
(* matcher.go: match engine, constraints, quick filter *)

\* the extension of path as matchesPatterns compares it
foldedExt(path, ignoreCase, cache) ==
    IF ignoreCase THEN CachedLower(cache, Ext(path)) ELSE Ext(path)

\* the membership test of the extension list (binary search above ten
\* entries, linear scan otherwise)
extensionFound(exts, ext) ==
    IF Len(exts) > 10
    THEN LET i == SearchStrings(exts, ext)
         IN  ~(i >= Len(exts) \/ exts[i + 1] # ext)
    ELSE \E i \in 1..Len(exts) : exts[i] = ext

\* the branch of matchesPatterns taken once the extension check has passed
matchesNamePatterns(filename, lowerFilename, pats, ignoreCase) ==
    IF /\ Len(pats.simplePatterns) > 0
       /\ \E i \in 1..Len(pats.simplePatterns) :
              IF ignoreCase
              THEN Contains(lowerFilename, pats.simplePatterns[i])
              ELSE Contains(filename, pats.simplePatterns[i])
    THEN TRUE
    ELSE IF Len(pats.simplePatterns) > 0 /\ Len(pats.patterns) = 0
    THEN FALSE
    ELSE \E i \in 1..Len(pats.patterns) :
              RegexMatchString(pats.patterns[i], filename)

\* matchesPatterns: [ok |-> the result, cache |-> the cache afterwards]
matchesPatterns(path, pats, ignoreCase, cache) ==
    IF Len(pats.patterns) = 0 /\ Len(pats.simplePatterns) = 0
           /\ Len(pats.extensions) = 0
    THEN [ok |-> TRUE, cache |-> cache]
    ELSE LET checkExt == Len(pats.extensions) > 0
             ext      == foldedExt(path, ignoreCase, cache)
             cache1   == IF checkExt /\ ignoreCase /\ Ext(path) \notin DOMAIN cache
                         THEN CachePut(cache, ext, ext)
                         ELSE cache
             filename == Base(path)
             lowerFilename == IF ignoreCase THEN CachedLower(cache1, filename)
                              ELSE <<>>
             cache2   == IF ignoreCase THEN CacheAfterLower(cache1, filename)
                         ELSE cache1
         IN  IF checkExt /\ ~extensionFound(pats.extensions, ext)
             THEN [ok |-> FALSE, cache |-> cache1]
             ELSE [ok    |-> matchesNamePatterns(filename, lowerFilename,
                                                 pats, ignoreCase),
                   cache |-> cache2]

matchesFileConstraintsExclusive(info, o) ==
    /\ ~(o.MinSize > 0 /\ info.size <= o.MinSize)
    /\ ~(o.MaxSize > 0 /\ info.size >= o.MaxSize)
    /\ ~(o.MinAge > 0 /\ info.age <= o.MinAge)
    /\ ~(o.MaxAge > 0 /\ info.age >= o.MaxAge)

\* matchesFileConstraints, with age = time.Since(info.ModTime())
matchesFileConstraints(info, o) ==
    /\ ~(o.MinSize > 0 /\ info.size < o.MinSize)
    /\ ~(o.MaxSize > 0 /\ info.size > o.MaxSize)
    /\ ~(o.MinAge > 0 /\ info.age < o.MinAge)
    /\ ~(o.MaxAge > 0 /\ info.age > o.MaxAge)

\* processFileBatch: `!matchesPatterns(...) || !matchesFileConstraints(...)`
\* skips the file, anything else is hashed and handed to the result processor
processAccepts(path, info, pats, o, cache) ==
    ~(\/ ~matchesPatterns(path, pats, o.IgnoreCase, cache).ok
      \/ ~matchesFileConstraints(info, o))

\* skipExtensions (globals.go): empty
skipExtensions == {}

quickPatternCheckRawPattern(filename, pats, ignoreCase) ==
    \E i \in 1..Len(pats) :
        /\ pats[i] # <<>>
        /\ Contains(IF ignoreCase THEN ToLower(filename) ELSE filename, pats[i])

\* the quick pattern check of shouldProcessFile
quickPatternCheck(filename, pats, ignoreCase) ==
    IF ignoreCase
    THEN \E i \in 1..Len(pats) :
             pats[i] # <<>> /\ Contains(ToLower(filename), ToLower(pats[i]))
    ELSE \E i \in 1..Len(pats) :
             pats[i] # <<>> /\ Contains(filename, pats[i])

\* shouldProcessFile
shouldProcessFile(path, o) ==
    /\ ~(o.ExcludeHidden /\ HasPrefix(Base(path), <<".">>))
    /\ ToLower(Ext(path)) \notin skipExtensions
    /\ (Len(o.Patterns) > 0 => quickPatternCheck(Base(path), o.Patterns, o.IgnoreCase))

-----------------------------------------------------------------------------
(* The file tree searched and the bounds of the model *)

\* opts.MaxWorkers: matcher goroutines of one Search
NumMatchers == 2

\* the most roots a Search is given
MaxRoots == 2

\* opts.BufferSize: capacity of the paths and results channels
ChanCap == 1

\* opts.BatchSize: paths per batch of a matcher
BatchLen == 2

DirW == <<"/", "w">>

DirWT == <<"/", "w", "/", "t">>

NameA == <<"a", ".", "t", "x", "t">>

NameB == <<"b", ".", "l", "o", "g">>

NameX == <<"x", ".", "t", "x", "t">>

\* a directory that holds nothing but symbolic links
DirS == <<"/", "s">>

\* k.txt, a symbolic link to /w/t/a.txt
NameK == <<"k", ".", "t", "x", "t">>

\* l, a symbolic link to the directory /w/t
NameL == <<"l">>

\* a directory with a hidden subdirectory, one named in skipDirs and a
\* plain one
DirH == <<"/", "h">>

NameDotC == <<".", "c">>

NameBuild == <<"b", "u", "i", "l", "d">>

NameE == <<"e">>

\* a directory of files whose fingerprint cannot be computed
DirF == <<"/", "f">>

NameP == <<"p", ".", "t", "x", "t">>

NameQ == <<"q", ".", "t", "x", "t">>

\* a directory with files large enough to be memory-mapped
DirM == <<"/", "m">>

NameG == <<"g", ".", "t", "x", "t">>

NameN == <<"n", ".", "t", "x", "t">>

NoEntries == <<>>

\* os.ReadDir: the entries of a directory sorted by name; /w holds the
\* directory t and x.txt, /w/t holds a.txt and b.log, /s holds the links
\* k.txt and l, /h holds the directories .c, build and e and the file
\* a.txt, each of these directories holds one a.txt, /f holds p.txt and
\* q.txt, and /m holds a.txt, g.txt and n.txt. DirEntry.IsDir is false for
\* a symbolic link, whatever it points to
ReadDir(dir) ==
    IF dir = DirW
    THEN << [name |-> <<"t">>, isDir |-> TRUE],
            [name |-> NameX, isDir |-> FALSE] >>
    ELSE IF dir = DirWT
    THEN << [name |-> NameA, isDir |-> FALSE],
            [name |-> NameB, isDir |-> FALSE] >>
    ELSE IF dir = DirS
    THEN << [name |-> NameK, isDir |-> FALSE],
            [name |-> NameL, isDir |-> FALSE] >>
    ELSE IF dir = DirH
    THEN << [name |-> NameDotC, isDir |-> TRUE],
            [name |-> NameA, isDir |-> FALSE],
            [name |-> NameBuild, isDir |-> TRUE],
            [name |-> NameE, isDir |-> TRUE] >>
    ELSE IF dir \in {Join(DirH, NameDotC), Join(DirH, NameBuild),
                     Join(DirH, NameE)}
    THEN << [name |-> NameA, isDir |-> FALSE] >>
    ELSE IF dir = DirF
    THEN << [name |-> NameP, isDir |-> FALSE],
            [name |-> NameQ, isDir |-> FALSE] >>
    ELSE IF dir = DirM
    THEN << [name |-> NameA, isDir |-> FALSE],
            [name |-> NameG, isDir |-> FALSE],
            [name |-> NameN, isDir |-> FALSE] >>
    ELSE NoEntries

\* the directories of the tree
Directories ==
    {DirW, DirWT, DirS, DirH, Join(DirH, NameDotC), Join(DirH, NameBuild),
     Join(DirH, NameE), DirF, DirM}

\* os.ReadDir fails on anything that is not a directory of the tree
ReadDirFails(dir) == dir \notin Directories

\* the symbolic links of the tree: os.Lstat gives them ModeSymlink
Symlinks == {Join(DirS, NameK), Join(DirS, NameL)}

\* os.Lstat: size in bytes, age = now - modtime, and the leading bytes;
\* x.txt is a copy of a.txt: same size, modification time and content;
\* g.txt and n.txt are one byte longer
Lstat(path) ==
    IF Base(path) = NameA THEN [size |-> 2, age |-> 0, head |-> "A"]
    ELSE IF Base(path) = NameB THEN [size |-> 2, age |-> 1, head |-> "B"]
    ELSE IF Base(path) = NameG THEN [size |-> 3, age |-> 0, head |-> "G"]
    ELSE IF Base(path) = NameN THEN [size |-> 3, age |-> 0, head |-> "N"]
    ELSE [size |-> 2, age |-> 0, head |-> "A"]

\* the bytes mmap.Map gives for a file: g.txt holds "AGC", n.txt holds
\* ".tx"
Content(path) ==
    IF Base(path) = NameG THEN <<"A", "G", "C">>
    ELSE IF Base(path) = NameN THEN <<".", "t", "x">>
    ELSE IF Base(path) = NameB THEN <<"B", "B">>
    ELSE <<"A", "A">>

\* the files on which the safe hash calculation of processFileBatch and
\* processRegularFile ends with hashErr set: calculateQuickHash panics and
\* the deferred recover turns the panic into the error
HashFails(path) == path \in {Join(DirF, NameP), Join(DirF, NameQ)}

\* the zero value a uint64 hash keeps when calculateQuickHash did not return
ZeroHash == <<>>

\* skipDirs (globals.go)
skipDirs ==
    { <<"n", "o", "d", "e", "_", "m", "o", "d", "u", "l", "e", "s">>,
      <<".", "g", "i", "t">>,
      <<".", "s", "v", "n">>,
      <<"t", "a", "r", "g", "e", "t">>,
      <<"b", "u", "i", "l", "d">>,
      <<"d", "i", "s", "t">>,
      <<"_", "_", "p", "y", "c", "a", "c", "h", "e", "_", "_">>,
      <<".", "i", "d", "e", "a">>,
      <<".", "v", "s", "c", "o", "d", "e">>,
      <<"$", "R", "E", "C", "Y", "C", "L", "E", ".", "B", "I", "N">>,
      <<"S", "y", "s", "t", "e", "m", " ", "V", "o", "l", "u", "m", "e", " ",
        "I", "n", "f", "o", "r", "m", "a", "t", "i", "o", "n">>,
      <<"W", "i", "n", "d", "o", "w", "s">>,
      <<"P", "r", "o", "g", "r", "a", "m", " ", "F", "i", "l", "e", "s">>,
      <<"P", "r", "o", "g", "r", "a", "m", " ", "F", "i", "l", "e", "s", " ",
        "(", "x", "8", "6", ")">>,
      <<"P", "r", "o", "g", "r", "a", "m", "D", "a", "t", "a">>,
      <<"A", "p", "p", "D", "a", "t", "a">>,
      <<"R", "e", "c", "o", "v", "e", "r", "y">> }

\* shouldSkipDirectory without its loop over opts.ExcludeDirs
shouldSkipDirectoryNoExcludeDirs(dir, o) ==
    \/ o.ExcludeHidden /\ HasPrefix(Base(dir), <<".">>)
    \/ Base(dir) \in skipDirs

\* shouldSkipDirectory
shouldSkipDirectory(dir, o) ==
    \/ o.ExcludeHidden /\ HasPrefix(Base(dir), <<".">>)
    \/ Base(dir) \in skipDirs
    \/ \E i \in 1..Len(o.ExcludeDirs) : HasPrefix(dir, o.ExcludeDirs[i])

\* calculateQuickHash: xxhash over path, size, modtime and the first KiB,
\* kept as the tuple of what is hashed (no collisions)
calculateQuickHash(path, info) == <<path, info.size, info.age, info.head>>

PatStarTxt == <<"*", ".", "t", "x", "t">>

PatTxt == <<"t", "x", "t">>

PatP == <<"p">>

PatDotT == <<".", "t">>

NoStrings == <<>>

\* the SearchOptions a Search is started with; build names the
\* processFileBatch that is compiled in: "batch" hashes and adds the file
\* itself, "regular" hands the file to processRegularFile
DefaultOptions ==
    [RootDirs |-> <<DirWT>>, Patterns |-> NoStrings, Extensions |-> NoStrings,
     MaxWorkers |-> NumMatchers, IgnoreCase |-> FALSE, BufferSize |-> ChanCap,
     MinSize |-> 0, MaxSize |-> 0, MinAge |-> 0, MaxAge |-> 0,
     ExcludeHidden |-> FALSE, DeduplicateFiles |-> FALSE,
     BatchSize |-> BatchLen, ExcludeDirs |-> NoStrings,
     FollowSymlinks |-> FALSE, UseMMap |-> FALSE, MinMMapSize |-> 3,
     FileOp |-> "NoOperation", build |-> "batch"]

\* a single root; a root listed twice; a root nested inside another
SearchConfigs ==
    { [DefaultOptions EXCEPT !.Patterns = <<PatStarTxt>>],
      DefaultOptions,
      [DefaultOptions EXCEPT !.RootDirs = <<DirWT, DirWT>>, !.Patterns = <<PatTxt>>],
      [DefaultOptions EXCEPT !.RootDirs = <<DirWT, DirWT>>, !.Patterns = <<PatTxt>>,
                             !.DeduplicateFiles = TRUE],
      [DefaultOptions EXCEPT !.RootDirs = <<DirW, DirWT>>, !.Patterns = <<PatTxt>>,
                             !.DeduplicateFiles = TRUE] }

Walkers == 1..Len(opts.RootDirs)

Matchers == 1..opts.MaxWorkers

NoFile == [path |-> <<>>, size |-> 0, age |-> 0]

NoResult == [Path |-> <<>>, Size |-> 0, Hash |-> ZeroHash, Error |-> FALSE]

\* the fields of compiledPatterns
Compiled(c) ==
    [patterns |-> c.patterns, simplePatterns |-> c.simplePatterns,
     extensions |-> c.extensions]

\* FileOp.Operation = NoOperation: no file operation runs
NoFileOperation ==
    /\ files = <<>>
    /\ clock = 0
    /\ opc = <<>>
    /\ otask = <<>>
    /\ oinfo = <<>>
    /\ otarget = <<>>
    /\ otmp = <<>>
    /\ owritten = <<>>
    /\ oret = <<>>
    /\ olog = <<>>

\* no buffer is out of bufferPool, copyBufferPool has counted none
NoBuffers ==
    /\ readOut = 0
    /\ copyCount = 0

\* nothing is logged
NoLogger ==
    /\ logDisabled = FALSE
    /\ logBuffer = <<>>
    /\ logCall = <<>>
    /\ logFate = <<>>
    /\ logWritten = <<>>

\* no command line runs
NoCli ==
    /\ cliOpen = FALSE
    /\ cliResults = <<>>
    /\ cliNext = 1
    /\ cliCancelled = FALSE
    /\ cliFound = <<>>
    /\ cliPc = "none"
    /\ cliRevealed = <<>>

\* no path has been sent or handed to a callback
NoHistory ==
    /\ sentPaths = <<>>
    /\ handedPaths = <<>>

\* no goroutine is inside copyBufferPool.Get or Put
NoGetters == gpc = <<>>

\* no BatchProcessor is checked on its own
NoBatch ==
    /\ bpSize = 0
    /\ bpBatch = <<>>
    /\ bpCalls = <<>>
    /\ bpAdded = <<>>
    /\ bpFlushed = FALSE

\* no ResultBuffer exists
NoResultBuffer ==
    /\ rbItems = <<>>
    /\ rbChunks = <<>>
    /\ rbTotal = 0
    /\ rbFound = <<>>
    /\ rbLastCount = 0
    /\ rbElapsed = 0
    /\ rbAdded = <<>>

NoUnits == NoGetters /\ NoBatch /\ NoResultBuffer

\* one more occurrence of x in the count b
Counted(b, x) ==
    [y \in (DOMAIN b) \cup {x} |->
        IF y = x THEN (IF x \in DOMAIN b THEN b[x] + 1 ELSE 1) ELSE b[y]]

RECURSIVE CountedAll(_, _)
\* one more occurrence of every element of the sequence xs
CountedAll(b, xs) ==
    IF xs = <<>> THEN b ELSE CountedAll(Counted(b, Head(xs)), Tail(xs))

\* no FileOperationProcessor exists
NoProcessor ==
    /\ pcfg = <<>>
    /\ pstarted = FALSE
    /\ pstopped = FALSE
    /\ pqueue = <<>>
    /\ pqueueClosed = 0
    /\ pfieldNil = FALSE
    /\ pstopClosed = FALSE
    /\ pwg = 0
    /\ pcurrent = 0
    /\ pworkers = <<>>
    /\ tcall = <<>>
    /\ tpc = <<>>
    /\ tret = <<>>
    /\ pbusy = <<>>
    /\ preport = <<>>
    /\ perrlog = <<>>

\* the state in which Search returns: channels made, patterns compiled,
\* matchers, walkers and the closer goroutine spawned
SearchStart(configs) ==
    /\ mode = "search"
    /\ opts \in configs
    /\ patterns = Compiled(preparePatterns(opts, EmptyCache))
    /\ lowerCache = preparePatterns(opts, EmptyCache).cache
    /\ stopClosed = FALSE
    /\ paths = <<>>
    /\ pathsClosed = 0
    /\ results = <<>>
    /\ resultsClosed = 0
    /\ sendOnClosed = {}
    /\ wpc = [w \in Walkers |-> "call"]
    /\ wstack = [w \in Walkers |-> <<>>]
    /\ wcall = [w \in Walkers |-> opts.RootDirs[w]]
    /\ wAfterStop = [w \in Walkers |-> 0]
    /\ mpc = [m \in Matchers |-> "select"]
    /\ mbatch = [m \in Matchers |-> <<>>]
    /\ mi = [m \in Matchers |-> 0]
    /\ mexit = [m \in Matchers |-> FALSE]
    /\ mres = [m \in Matchers |-> NoResult]
    /\ mAfterStop = [m \in Matchers |-> 0]
    /\ seen = {}
    /\ mu = 0
    /\ addedDup = FALSE
    /\ cpc = "walkWait"
    /\ consumer = "reading"
    /\ delivered = <<>>
    /\ cur = NoFile
    /\ quickRes = FALSE
    /\ matchRes = FALSE
    /\ consRes = FALSE
    /\ reportRes = FALSE
    /\ NoFileOperation
    /\ NoBuffers
    /\ NoLogger
    /\ NoCli
    /\ NoHistory
    /\ NoUnits

\* Search without a file operation: no FileOperationProcessor is created
SearchInit(configs) == SearchStart(configs) /\ NoProcessor

Init == SearchInit(SearchConfigs)

\* the searches checked under fairness: one root, every file matched
FairConfigs ==
    { [DefaultOptions EXCEPT !.DeduplicateFiles = d] : d \in BOOLEAN }

FairInit == SearchInit(FairConfigs)

-----------------------------------------------------------------------------
(* walker.go: walkDirectoryOptimized, one goroutine per root *)

\* return from a call of walkDirectoryOptimized whose callers are `callers`:
\* the root call ends the goroutine (walkWg.Done), a recursive call resumes
\* the caller's loop at its next entry
ReturnTo(callers) ==
    IF callers = <<>>
    THEN [pc |-> "done", stack |-> <<>>]
    ELSE [pc |-> "loop",
          stack |-> [callers EXCEPT ![Len(callers)].i = @ + 1]]

Callers(st) == SubSeq(st, 1, Len(st) - 1)

\* walkDirectoryOptimized entered: skip check and os.ReadDir
WalkerCall(w) ==
    /\ mode = "search"
    /\ wpc[w] = "call"
    /\ LET dir == wcall[w]
           ret == ReturnTo(wstack[w])
       IN  IF shouldSkipDirectory(dir, opts) \/ ReadDirFails(dir)
           THEN /\ wpc' = [wpc EXCEPT ![w] = ret.pc]
                /\ wstack' = [wstack EXCEPT ![w] = ret.stack]
           ELSE /\ wpc' = [wpc EXCEPT ![w] = "loop"]
                /\ wstack' = [wstack EXCEPT ![w] = Append(@, [dir |-> dir, i |-> 1])]
    /\ UNCHANGED << fileVars, mode, opts, patterns, lowerCache, stopClosed, paths,
                    pathsClosed, results, resultsClosed, sendOnClosed, wcall,
                    wAfterStop, mpc, mbatch, mi, mexit, mres, mAfterStop, seen,
                    mu, addedDup, cpc, consumer, delivered, matchVars >>

\* one iteration of `for _, entry := range entries` with its select/default
WalkerLoop(w) ==
    /\ mode = "search"
    /\ wpc[w] = "loop"
    /\ LET st      == wstack[w]
           top     == st[Len(st)]
           entries == ReadDir(top.dir)
           ret     == ReturnTo(Callers(st))
       IN  IF top.i > Len(entries) \/ stopClosed
           THEN /\ wpc' = [wpc EXCEPT ![w] = ret.pc]
                /\ wstack' = [wstack EXCEPT ![w] = ret.stack]
                /\ wcall' = wcall
           ELSE LET entry == entries[top.i]
                    path  == Join(top.dir, entry.name)
                IN  IF entry.isDir
                    THEN /\ wpc' = [wpc EXCEPT ![w] = "call"]
                         /\ wcall' = [wcall EXCEPT ![w] = path]
                         /\ wstack' = wstack
                    ELSE IF shouldProcessFile(path, opts)
                    THEN /\ wpc' = [wpc EXCEPT ![w] = "send"]
                         /\ wcall' = [wcall EXCEPT ![w] = path]
                         /\ wstack' = wstack
                    ELSE /\ wpc' = wpc
                         /\ wcall' = wcall
                         /\ wstack' = [wstack EXCEPT ![w][Len(st)].i = @ + 1]
    /\ UNCHANGED << fileVars, mode, opts, patterns, lowerCache, stopClosed, paths,
                    pathsClosed, results, resultsClosed, sendOnClosed,
                    wAfterStop, mpc, mbatch, mi, mexit, mres, mAfterStop, seen,
                    mu, addedDup, cpc, consumer, delivered, matchVars >>

\* select { case paths <- path: ...  case <-opts.StopChan: return }
WalkerSend(w) ==
    /\ mode = "search"
    /\ wpc[w] = "send"
    /\ \/ /\ pathsClosed = 0
          /\ Len(paths) < opts.BufferSize
          /\ paths' = Append(paths, wcall[w])
          /\ sentPaths' = Counted(sentPaths, wcall[w])
          /\ wAfterStop' = [wAfterStop EXCEPT ![w] = IF stopClosed THEN @ + 1 ELSE @]
          /\ wpc' = [wpc EXCEPT ![w] = "loop"]
          /\ wstack' = [wstack EXCEPT ![w][Len(wstack[w])].i = @ + 1]
          /\ UNCHANGED sendOnClosed
       \/ /\ pathsClosed > 0
          /\ sendOnClosed' = sendOnClosed \cup {"paths"}
          /\ wpc' = [wpc EXCEPT ![w] = "panic"]
          /\ UNCHANGED << paths, sentPaths, wAfterStop, wstack >>
       \/ /\ stopClosed
          /\ LET ret == ReturnTo(Callers(wstack[w]))
             IN  /\ wpc' = [wpc EXCEPT ![w] = ret.pc]
                 /\ wstack' = [wstack EXCEPT ![w] = ret.stack]
          /\ UNCHANGED << paths, sentPaths, wAfterStop, sendOnClosed >>
    /\ UNCHANGED << opsVars, procVars, poolVars, bufVars, logVars, cliVars,
                    handedPaths, unitVars,
                    mode, opts, patterns, lowerCache, stopClosed, pathsClosed,
                    results, resultsClosed, wcall, mpc, mbatch, mi, mexit, mres,
                    mAfterStop, seen, mu, addedDup, cpc, consumer, delivered,
                    matchVars >>

-----------------------------------------------------------------------------
(* search.go: matcher goroutines, processFileBatch; resultProcessor *)

\* BatchProcessor.flush entered with `batch` pending; `exit` tells whether
\* the matcher returns after it. processFileBatch takes its read buffer
\* from bufferPool
StartFlush(m, batch, exit) ==
    IF batch = <<>>
    THEN /\ mpc' = [mpc EXCEPT ![m] = IF exit THEN "done" ELSE "select"]
         /\ mbatch' = [mbatch EXCEPT ![m] = batch]
         /\ UNCHANGED << mi, mexit, readOut, handedPaths >>
    ELSE /\ mpc' = [mpc EXCEPT ![m] = "proc"]
         /\ mbatch' = [mbatch EXCEPT ![m] = batch]
         /\ mi' = [mi EXCEPT ![m] = 1]
         /\ mexit' = [mexit EXCEPT ![m] = exit]
         /\ readOut' = readOut + 1
         /\ handedPaths' = CountedAll(handedPaths, batch)

\* the loop of processFileBatch moves on; after the last path the callback
\* returns (its deferred bufferPool.Put runs) and flush truncates the batch
ItemDone(m) ==
    IF mi[m] < Len(mbatch[m])
    THEN /\ mi' = [mi EXCEPT ![m] = @ + 1]
         /\ mpc' = [mpc EXCEPT ![m] = "proc"]
         /\ UNCHANGED << mbatch, mexit, readOut >>
    ELSE /\ mi' = [mi EXCEPT ![m] = 0]
         /\ mbatch' = [mbatch EXCEPT ![m] = <<>>]
         /\ mpc' = [mpc EXCEPT ![m] = IF mexit[m] THEN "done" ELSE "select"]
         /\ readOut' = readOut - 1
         /\ UNCHANGED mexit

\* Search was given a file operation and created its processor
UsesFileOp == opts.FileOp # "NoOperation" /\ opts.build = "batch"

\* processFileBatch after processor.add (or processByMMap) has returned:
\* fileOpProcessor.Add is called if there is a processor
AfterAdd(m) ==
    IF UsesFileOp
    THEN /\ mpc' = [mpc EXCEPT ![m] = "fileop"]
         /\ UNCHANGED << mi, mbatch, mexit, readOut >>
    ELSE ItemDone(m)

\* the select of the matcher loop: a path, the closed paths channel, or
\* the closed StopChan
MatcherSelect(m) ==
    /\ mode = "search"
    /\ mpc[m] = "select"
    /\ \/ /\ Len(paths) > 0
          /\ paths' = Tail(paths)
          /\ IF shouldProcessFile(Head(paths), opts)
             THEN LET batch == Append(mbatch[m], Head(paths))
                  IN  IF Len(batch) >= opts.BatchSize
                      THEN StartFlush(m, batch, FALSE)
                      ELSE /\ mbatch' = [mbatch EXCEPT ![m] = batch]
                           /\ UNCHANGED << mpc, mi, mexit, readOut,
                                           handedPaths >>
             ELSE UNCHANGED << mpc, mbatch, mi, mexit, readOut, handedPaths >>
       \/ /\ Len(paths) = 0
          /\ pathsClosed > 0
          /\ StartFlush(m, mbatch[m], TRUE)
          /\ UNCHANGED paths
       \/ /\ stopClosed
          /\ StartFlush(m, mbatch[m], TRUE)
          /\ UNCHANGED paths
    /\ UNCHANGED << opsVars, procVars, poolVars, copyCount, logVars,
                    cliVars, sentPaths, unitVars,
                    mode, opts, patterns, lowerCache, stopClosed, pathsClosed,
                    results, resultsClosed, sendOnClosed, wpc, wstack, wcall,
                    wAfterStop, mres, mAfterStop, seen, mu, addedDup, cpc,
                    consumer, delivered, matchVars >>

\* the SearchResult processFileBatch builds: Hash stays zero and Error is
\* set when the hash calculation failed
SearchResultOf(path, info) ==
    [Path |-> path, Size |-> info.size,
     Hash |-> IF HashFails(path) THEN ZeroHash
              ELSE calculateQuickHash(path, info),
     Error |-> HashFails(path)]

\* processRegularFile returns before the pattern test on a symbolic link,
\* and after logError on a failed hash calculation
RegularFileReturns(path) ==
    \/ path \in Symlinks
    \/ HashFails(path)

\* the first bytes of a mapped file that matchesContent looks at
maxCheck == 1048576

\* matchesContent: no compiled expression, or one of them matches the
\* leading bytes of the file
matchesContent(data, pats) ==
    \/ Len(pats.patterns) = 0
    \/ LET checked == IF Len(data) > maxCheck
                      THEN SubSeq(data, 1, maxCheck) ELSE data
       IN  \E i \in 1..Len(pats.patterns) :
               RegexMatchString(pats.patterns[i], checked)

\* the SearchResult processByMMap builds: xxhash.Sum64 of the mapped bytes,
\* kept as what is hashed
MMapResultOf(path, info) ==
    [Path |-> path, Size |-> info.size, Hash |-> <<Content(path)>>,
     Error |-> FALSE]

\* what the mmap branch of processFileBatch comes to for a file: not
\* entered, processByMMap returned nil, or os.OpenFile or mmap.Map failed.
\* The first processFileBatch enters it after its pattern and constraint
\* tests, the second before any test
MMapOutcomes(path, info, o, accepted) ==
    IF /\ o.UseMMap
       /\ info.size >= o.MinMMapSize
       /\ (o.build = "batch" => accepted)
    THEN {"mapped", "failed"}
    ELSE {"none"}

\* processFileBatch, one path: Lstat, matchesPatterns, matchesFileConstraints,
\* processByMMap for a large file, else calculateQuickHash; an accepted file
\* goes to resultProcessor.add
MatcherProc(m) ==
    /\ mode = "search"
    /\ mpc[m] = "proc"
    /\ LET path == mbatch[m][mi[m]]
           info == Lstat(path)
           mp   == matchesPatterns(path, patterns, opts.IgnoreCase, lowerCache)
           accepted == processAccepts(path, info, patterns, opts, lowerCache)
       IN  \E outcome \in MMapOutcomes(path, info, opts, accepted) :
             IF outcome = "mapped"
             THEN /\ lowerCache' = IF opts.build = "batch" THEN mp.cache
                                   ELSE lowerCache
                  /\ IF matchesContent(Content(path), patterns)
                     THEN /\ mres' = [mres EXCEPT ![m] =
                                         MMapResultOf(path, info)]
                          /\ mpc' = [mpc EXCEPT ![m] =
                                        IF opts.DeduplicateFiles
                                        THEN "lock" ELSE "send"]
                          /\ UNCHANGED << mbatch, mi, mexit, readOut >>
                     ELSE /\ AfterAdd(m)
                          /\ UNCHANGED mres
             ELSE /\ lowerCache' = IF opts.build = "regular"
                                        /\ path \in Symlinks
                                   THEN lowerCache ELSE mp.cache
                  /\ IF \/ ~accepted
                        \/ opts.build = "regular" /\ RegularFileReturns(path)
                     THEN /\ ItemDone(m)
                          /\ UNCHANGED mres
                     ELSE /\ mres' = [mres EXCEPT ![m] =
                                         SearchResultOf(path, info)]
                          /\ mpc' = [mpc EXCEPT ![m] =
                                        IF opts.DeduplicateFiles
                                        THEN "lock" ELSE "send"]
                          /\ UNCHANGED << mbatch, mi, mexit, readOut >>
    /\ UNCHANGED << opsVars, procVars, poolVars, copyCount, outerVars,
                    mode, opts, patterns, stopClosed, paths, pathsClosed,
                    results, resultsClosed, sendOnClosed, wpc, wstack, wcall,
                    wAfterStop, mAfterStop, seen, mu, addedDup, cpc, consumer,
                    delivered, matchVars >>

MuCanLockNoExclusion(m) == TRUE

\* rp.mu.Lock() returns only while no other goroutine holds the mutex
MuCanLock(m) == mu = 0

\* resultProcessor.add: Lock and the test of rp.seen[result.Hash]; a seen
\* hash unlocks and returns
AddLock(m) ==
    /\ mode = "search"
    /\ mpc[m] = "lock"
    /\ MuCanLock(m)
    /\ IF mres[m].Hash \in seen
       THEN /\ addedDup' = TRUE
            /\ AfterAdd(m)
            /\ UNCHANGED mu
       ELSE /\ mu' = m
            /\ mpc' = [mpc EXCEPT ![m] = "set"]
            /\ UNCHANGED << addedDup, mbatch, mi, mexit, readOut >>
    /\ UNCHANGED << opsVars, procVars, poolVars, copyCount, outerVars,
                    mode, opts, patterns, lowerCache, stopClosed, paths,
                    pathsClosed, results, resultsClosed, sendOnClosed, wpc,
                    wstack, wcall, wAfterStop, mres, mAfterStop, seen, cpc,
                    consumer, delivered, matchVars >>

\* resultProcessor.add: rp.seen[result.Hash] = true and Unlock
AddSet(m) ==
    /\ mode = "search"
    /\ mpc[m] = "set"
    /\ seen' = seen \cup {mres[m].Hash}
    /\ mu' = 0
    /\ mpc' = [mpc EXCEPT ![m] = "send"]
    /\ UNCHANGED << fileVars, mode, opts, patterns, lowerCache, stopClosed, paths,
                    pathsClosed, results, resultsClosed, sendOnClosed, wpc,
                    wstack, wcall, wAfterStop, mbatch, mi, mexit, mres,
                    mAfterStop, addedDup, cpc, consumer, delivered, matchVars >>

\* resultProcessor.add: rp.results <- result (blocks while the buffer is
\* full, panics on a closed channel)
AddSend(m) ==
    /\ mode = "search"
    /\ mpc[m] = "send"
    /\ \/ /\ resultsClosed = 0
          /\ Len(results) < opts.BufferSize
          /\ results' = Append(results, mres[m])
          /\ mAfterStop' = [mAfterStop EXCEPT ![m] = IF stopClosed THEN @ + 1 ELSE @]
          /\ AfterAdd(m)
          /\ UNCHANGED sendOnClosed
       \/ /\ resultsClosed > 0
          /\ sendOnClosed' = sendOnClosed \cup {"results"}
          /\ mpc' = [mpc EXCEPT ![m] = "panic"]
          /\ readOut' = readOut - 1
          /\ UNCHANGED << results, mAfterStop, mbatch, mi, mexit >>
    /\ UNCHANGED << opsVars, procVars, poolVars, copyCount, outerVars,
                    mode, opts, patterns, lowerCache, stopClosed, paths,
                    pathsClosed, resultsClosed, wpc, wstack, wcall, wAfterStop,
                    mres, seen, mu, addedDup, cpc, consumer, delivered,
                    matchVars >>

-----------------------------------------------------------------------------
(* search.go: the closer goroutine; the consumer; StopChan *)

\* walkWg.Wait() returns
WalkWgDone == \A w \in Walkers : wpc[w] = "done"

WgDoneNoWait == TRUE

\* wg.Wait() returns
WgDone == \A m \in Matchers : mpc[m] = "done"

\* walkWg.Wait(); close(paths)
CloserClosePaths ==
    /\ mode = "search"
    /\ cpc = "walkWait"
    /\ WalkWgDone
    /\ pathsClosed' = pathsClosed + 1
    /\ cpc' = "wgWait"
    /\ UNCHANGED << fileVars, mode, opts, patterns, lowerCache, stopClosed, paths,
                    results, resultsClosed, sendOnClosed, wpc, wstack, wcall,
                    wAfterStop, mpc, mbatch, mi, mexit, mres, mAfterStop, seen,
                    mu, addedDup, consumer, delivered, matchVars >>

\* the caller of the processor's Stop: the closer goroutine
StopCaller == opts.MaxWorkers + 1

\* wg.Wait(), and fileOpProcessor.Stop() if there is a processor; then
\* processor.close()
CloserCloseResults ==
    /\ mode = "search"
    /\ IF UsesFileOp
       THEN cpc = "stop" /\ tpc[StopCaller] = "done"
       ELSE cpc = "wgWait" /\ WgDone
    /\ resultsClosed' = resultsClosed + 1
    /\ cpc' = "done"
    /\ UNCHANGED << fileVars, mode, opts, patterns, lowerCache, stopClosed, paths,
                    pathsClosed, results, sendOnClosed, wpc, wstack, wcall,
                    wAfterStop, mpc, mbatch, mi, mexit, mres, mAfterStop, seen,
                    mu, addedDup, consumer, delivered, matchVars >>

\* the consumer receives a result, or sees the closed channel
ConsumerRecv ==
    /\ mode = "search"
    /\ consumer = "reading"
    /\ \/ /\ Len(results) > 0
          /\ delivered' = Append(delivered, Head(results))
          /\ results' = Tail(results)
          /\ UNCHANGED consumer
       \/ /\ Len(results) = 0
          /\ resultsClosed > 0
          /\ consumer' = "finished"
          /\ UNCHANGED << delivered, results >>
    /\ UNCHANGED << fileVars, mode, opts, patterns, lowerCache, stopClosed, paths,
                    pathsClosed, resultsClosed, sendOnClosed, wpc, wstack,
                    wcall, wAfterStop, mpc, mbatch, mi, mexit, mres, mAfterStop,
                    seen, mu, addedDup, cpc, matchVars >>

\* the consumer takes its `case <-stopChan` branch and stops reading
ConsumerStop ==
    /\ mode = "search"
    /\ consumer = "reading"
    /\ stopClosed
    /\ consumer' = "stopped"
    /\ UNCHANGED << fileVars, mode, opts, patterns, lowerCache, stopClosed, paths,
                    pathsClosed, results, resultsClosed, sendOnClosed, wpc,
                    wstack, wcall, wAfterStop, mpc, mbatch, mi, mexit, mres,
                    mAfterStop, seen, mu, addedDup, cpc, delivered, matchVars >>

\* close(stopChan): the user stops the running search
CloseStop ==
    /\ mode = "search"
    /\ ~stopClosed
    /\ consumer = "reading"
    /\ stopClosed' = TRUE
    /\ UNCHANGED << fileVars, mode, opts, patterns, lowerCache, paths, pathsClosed,
                    results, resultsClosed, sendOnClosed, wpc, wstack, wcall,
                    wAfterStop, mpc, mbatch, mi, mexit, mres, mAfterStop, seen,
                    mu, addedDup, cpc, consumer, delivered, matchVars >>

WalkerStep(w) == WalkerCall(w) \/ WalkerLoop(w) \/ WalkerSend(w)

MatcherStep(m) ==
    MatcherSelect(m) \/ MatcherProc(m) \/ AddLock(m) \/ AddSet(m) \/ AddSend(m)

CloserStep == CloserClosePaths \/ CloserCloseResults

Next ==
    \/ \E w \in Walkers : WalkerCall(w)
    \/ \E w \in Walkers : WalkerLoop(w)
    \/ \E w \in Walkers : WalkerSend(w)
    \/ \E m \in Matchers : MatcherSelect(m)
    \/ \E m \in Matchers : MatcherProc(m)
    \/ \E m \in Matchers : AddLock(m)
    \/ \E m \in Matchers : AddSet(m)
    \/ \E m \in Matchers : AddSend(m)
    \/ CloserClosePaths
    \/ CloserCloseResults
    \/ ConsumerRecv
    \/ ConsumerStop
    \/ CloseStop

Spec == Init /\ [][Next]_vars

\* every goroutine of Search that can take a step eventually takes one; the
\* consumer and the user are under no obligation
FairSpec ==
    /\ FairInit
    /\ [][Next]_vars
    /\ \A w \in 1..MaxRoots : WF_vars(w \in Walkers /\ WalkerStep(w))
    /\ \A m \in 1..NumMatchers : WF_vars(MatcherStep(m))
    /\ WF_vars(CloserStep)

\* searches of the parts of the tree that hold symbolic links, directories
\* to skip and files whose fingerprint fails, the last with one and with two
\* matched files
TreeConfigs ==
    { [DefaultOptions EXCEPT !.RootDirs = <<DirS>>],
      [DefaultOptions EXCEPT !.RootDirs = <<DirS>>, !.build = "regular"],
      [DefaultOptions EXCEPT !.RootDirs = <<DirH>>, !.ExcludeHidden = TRUE],
      [DefaultOptions EXCEPT !.RootDirs = <<DirH>>,
                             !.ExcludeDirs = <<Join(DirH, NameE)>>],
      [DefaultOptions EXCEPT !.RootDirs = <<Join(DirH, NameBuild)>>],
      [DefaultOptions EXCEPT !.RootDirs = <<Join(DirH, NameE)>>,
                             !.ExcludeDirs = <<DirH>>] }
    \cup { [DefaultOptions EXCEPT !.RootDirs = <<DirF>>, !.Patterns = p,
                                  !.DeduplicateFiles = d, !.build = b] :
               p \in {NoStrings, <<PatP>>}, d \in BOOLEAN,
               b \in {"batch", "regular"} }

\* searches of /m with and without memory mapping
MMapConfigs ==
    { [DefaultOptions EXCEPT !.RootDirs = <<DirM>>, !.Patterns = p,
                             !.UseMMap = u, !.build = b] :
         p \in {NoStrings, <<PatDotT>>}, u \in BOOLEAN,
         b \in {"batch", "regular"} }

TreeInit == SearchInit(TreeConfigs \cup MMapConfigs)

\* Search run on those parts of the tree
SpecTree == TreeInit /\ [][Next]_vars

-----------------------------------------------------------------------------
(* SpecMatch: preparePatterns, then shouldProcessFile, matchesPatterns,   *)
(* matchesFileConstraints and the accept test of processFileBatch applied *)
(* to one file after another                                              *)

\* the largest option value and file size/age tried
MaxQuantity == 2

\* files are checked while the lower-case cache holds at most this many keys
MaxCacheKeys == 3

NameUpperA == <<"A", ".", "T", "X", "T">>

NameHidden == <<".", "h", ".", "t", "x", "t">>

NameNoExt == <<"a">>

NameReadmeUpper == <<"R", "E", "A", "D", "M", "E", ".", "T", "X", "T">>

NameReadmeLower == <<"r", "e", "a", "d", "m", "e", ".", "t", "x", "t">>

MatchNames ==
    { NameA, NameUpperA, NameB, NameHidden, NameNoExt, NameReadmeUpper,
      NameReadmeLower }

\* opts.Patterns tried
MatchPatternSets ==
    { NoStrings,
      << <<>> >>,
      <<PatStarTxt>>,
      <<PatTxt>>,
      << <<"T", "X", "T">> >>,
      << <<".", "t", "x">> >>,
      << <<"E", "a">>, <<".", "L", "o", "g">> >>,
      << <<>>, <<"b">> >> }

\* opts.Extensions tried
MatchExtensionSets ==
    { NoStrings,
      << <<"t", "x", "t">> >>,
      << <<".", "T", "X", "T">>, <<"l", "o", "g">>, <<"t", "x", "t">> >>,
      << <<>> >> }

\* pattern options with no constraints, and constraints with no patterns
MatchConfigs ==
    { [DefaultOptions EXCEPT !.Patterns = p, !.Extensions = e,
                             !.IgnoreCase = ic, !.ExcludeHidden = h] :
        p \in MatchPatternSets, e \in MatchExtensionSets,
        ic \in BOOLEAN, h \in BOOLEAN }
    \cup
    { [DefaultOptions EXCEPT !.MinSize = a, !.MaxSize = b,
                             !.MinAge = c, !.MaxAge = d] :
        a \in 0..MaxQuantity, b \in 0..MaxQuantity,
        c \in 0..MaxQuantity, d \in 0..MaxQuantity }

\* the files checked: every name when no constraint is set, otherwise a.txt
\* with every size and age (a modification time in the future gives age -1)
MatchFiles(o) ==
    IF o.MinSize = 0 /\ o.MaxSize = 0 /\ o.MinAge = 0 /\ o.MaxAge = 0
    THEN { [path |-> Join(DirWT, n), size |-> 1, age |-> 1] : n \in MatchNames }
    ELSE { [path |-> Join(DirWT, NameA), size |-> sz, age |-> ag] :
             sz \in 0..(MaxQuantity + 1), ag \in (-1)..(MaxQuantity + 1) }

EmptyCompiled ==
    [patterns |-> <<>>, simplePatterns |-> <<>>, extensions |-> <<>>]

\* Search entered with opts; nothing compiled yet, no goroutine running
MatchInit ==
    /\ mode = "match"
    /\ opts \in MatchConfigs
    /\ patterns = EmptyCompiled
    /\ lowerCache = EmptyCache
    /\ stopClosed = FALSE
    /\ paths = <<>>
    /\ pathsClosed = 0
    /\ results = <<>>
    /\ resultsClosed = 0
    /\ sendOnClosed = {}
    /\ wpc = [w \in Walkers |-> "call"]
    /\ wstack = [w \in Walkers |-> <<>>]
    /\ wcall = [w \in Walkers |-> opts.RootDirs[w]]
    /\ wAfterStop = [w \in Walkers |-> 0]
    /\ mpc = [m \in Matchers |-> "select"]
    /\ mbatch = [m \in Matchers |-> <<>>]
    /\ mi = [m \in Matchers |-> 0]
    /\ mexit = [m \in Matchers |-> FALSE]
    /\ mres = [m \in Matchers |-> NoResult]
    /\ mAfterStop = [m \in Matchers |-> 0]
    /\ seen = {}
    /\ mu = 0
    /\ addedDup = FALSE
    /\ cpc = "walkWait"
    /\ consumer = "reading"
    /\ delivered = <<>>
    /\ cur = NoFile
    /\ quickRes = FALSE
    /\ matchRes = FALSE
    /\ consRes = FALSE
    /\ reportRes = FALSE
    /\ NoFileOperation
    /\ NoProcessor
    /\ NoBuffers
    /\ NoLogger
    /\ NoCli
    /\ NoHistory
    /\ NoUnits

\* patterns := preparePatterns(opts)
MatchPrepare ==
    /\ mode = "match"
    /\ patterns' = Compiled(preparePatterns(opts, lowerCache))
    /\ lowerCache' = preparePatterns(opts, lowerCache).cache
    /\ mode' = "ready"
    /\ UNCHANGED << fileVars, opts, searchVars, matchVars >>

\* one file through the quick filter, the match engine, the constraint
\* check and the accept test of processFileBatch
MatchFile(f) ==
    /\ mode \in {"ready", "checked"}
    /\ Cardinality(DOMAIN lowerCache) <= MaxCacheKeys
    /\ mode' = "checked"
    /\ cur' = f
    /\ quickRes' = shouldProcessFile(f.path, opts)
    /\ matchRes' = matchesPatterns(f.path, patterns, opts.IgnoreCase, lowerCache).ok
    /\ lowerCache' = matchesPatterns(f.path, patterns, opts.IgnoreCase, lowerCache).cache
    /\ consRes' = matchesFileConstraints(f, opts)
    /\ reportRes' = /\ shouldProcessFile(f.path, opts)
                    /\ processAccepts(f.path, f, patterns, opts, lowerCache)
    /\ UNCHANGED << fileVars, opts, patterns, searchVars >>

NextMatch ==
    \/ MatchPrepare
    \/ \E f \in MatchFiles(opts) : MatchFile(f)

SpecMatch == MatchInit /\ [][NextMatch]_vars

-----------------------------------------------------------------------------
(* Properties of one Search call *)

\* everything sent into the result channel so far, in order
ResultStream == delivered \o results

AllWalkersExited == \A w \in Walkers : wpc[w] = "done"

AllMatchersExited == \A m \in Matchers : mpc[m] = "done"

\* C1 -- Closure: the result channel is closed at most once, only after
\* every walker and matcher goroutine has exited, and exactly once when the
\* closer goroutine has run; paths is closed only after every walker has
\* exited; no send ever hits a closed paths or results channel.
C1_Closure ==
    mode = "search" =>
        /\ resultsClosed <= 1
        /\ pathsClosed <= 1
        /\ (resultsClosed > 0 => AllWalkersExited /\ AllMatchersExited)
        /\ (pathsClosed > 0 => AllWalkersExited)
        /\ (cpc = "done" => resultsClosed = 1)
        /\ sendOnClosed = {}
        /\ \A w \in Walkers : wpc[w] # "panic"
        /\ \A m \in Matchers : mpc[m] # "panic"

\* C1 witness: a search with two walkers ran to the end, results were sent
\* and the channel was closed by the closer goroutine.
C1_Witness ==
    /\ mode = "search"
    /\ Len(opts.RootDirs) = 2
    /\ cpc = "done"
    /\ resultsClosed = 1
    /\ Len(ResultStream) > 0

\* C2 -- Cancellation never leaves the result stream unclosed: once StopChan
\* is closed the result channel is eventually closed, whatever the consumer
\* does afterwards.
C2_CancelClosesStream == stopClosed ~> (resultsClosed > 0)

\* C3 -- after StopChan is closed each walker performs at most one further
\* send into paths and each matcher at most one further send into results.
C3_OneSendAfterStop ==
    mode = "search" =>
        /\ \A w \in Walkers : wAfterStop[w] <= 1
        /\ \A m \in Matchers : mAfterStop[m] <= 1

\* C4 -- Dedup: with DeduplicateFiles no two results of the result stream
\* have the same Hash, also when equal hashes are added concurrently.
C4_Dedup ==
    (mode = "search" /\ opts.DeduplicateFiles) =>
        \A i, j \in 1..Len(ResultStream) :
            i # j => ResultStream[i].Hash # ResultStream[j].Hash

\* C4 witness: with DeduplicateFiles a second add of a hash was dropped
\* while the first one reached the stream.
C4_Witness ==
    /\ mode = "search"
    /\ opts.DeduplicateFiles
    /\ addedDup
    /\ Len(ResultStream) > 0

\* C5 -- without deduplication each matched path appears at most once in
\* the result stream, for every choice of RootDirs.
C5_PathAtMostOnce ==
    (mode = "search" /\ ~opts.DeduplicateFiles) =>
        \A i, j \in 1..Len(ResultStream) :
            i # j => ResultStream[i].Path # ResultStream[j].Path

\* C6 -- for the tree /w/t holding a.txt and b.log and Patterns = ["*.txt"],
\* an uncancelled search yields exactly one result, a.txt, and then closes.
C6_StarTxtYieldsATxt ==
    ( /\ mode = "search"
      /\ opts.RootDirs = <<DirWT>>
      /\ opts.Patterns = <<PatStarTxt>>
      /\ ~stopClosed
      /\ consumer = "finished" )
    => [i \in 1..Len(delivered) |-> delivered[i].Path] = <<Join(DirWT, NameA)>>

-----------------------------------------------------------------------------
(* Properties of the match functions (SpecMatch) *)

\* the extension of the checked file, case-folded when IgnoreCase
CurExt == IF opts.IgnoreCase THEN ToLower(Ext(cur.path)) ELSE Ext(cur.path)

\* C7 -- with extensions configured and no name patterns, the match engine
\* accepts a file if and only if its (folded) extension is one of the
\* normalized extensions.
C7_ExtensionOnly ==
    ( /\ mode = "checked"
      /\ Len(opts.Patterns) = 0
      /\ Len(patterns.extensions) > 0 )
    => (matchRes <=> \E i \in 1..Len(patterns.extensions) :
                         patterns.extensions[i] = CurExt)

AllEmpty(strs) == \A i \in 1..Len(strs) : strs[i] = <<>>

\* C8 -- when Patterns and Extensions hold no non-empty string, every file
\* that is not excluded as hidden and meets the constraints passes the quick
\* filter and the match engine and is reported.
C8_EmptyPatternsMatchAll ==
    ( /\ mode = "checked"
      /\ AllEmpty(opts.Patterns)
      /\ AllEmpty(opts.Extensions)
      /\ ~(opts.ExcludeHidden /\ HasPrefix(Base(cur.path), <<".">>))
      /\ consRes )
    => (quickRes /\ matchRes /\ reportRes)

\* names longer than this are compared with their all-upper and all-lower
\* forms only
MaxVariantLen == 6

RECURSIVE AllCases(_)
\* every way of choosing the case of each letter of s
AllCases(s) ==
    IF s = <<>> THEN {<<>>}
    ELSE {<<c>> \o t : c \in {ToLowerChar(Head(s)), ToUpperChar(Head(s))},
                       t \in AllCases(Tail(s))}

CaseVariants(s) ==
    IF Len(s) <= MaxVariantLen THEN AllCases(s) ELSE {s, ToLower(s), ToUpper(s)}

\* opts with the patterns and the extensions written in another case
OptionCaseVariants(o) ==
    { [o EXCEPT !.Patterns = [i \in 1..Len(o.Patterns) |-> pc[i]],
                !.Extensions = [i \in 1..Len(o.Extensions) |-> ec[i]]] :
        pc \in { [i \in 1..Len(o.Patterns) |-> ToLower(o.Patterns[i])],
                 [i \in 1..Len(o.Patterns) |-> ToUpper(o.Patterns[i])] },
        ec \in { [i \in 1..Len(o.Extensions) |-> ToLower(o.Extensions[i])],
                 [i \in 1..Len(o.Extensions) |-> ToUpper(o.Extensions[i])] } }

\* C9 -- Case-fold correctness: with IgnoreCase the quick filter and
\* matchesPatterns give the same answer for every change of letter case of
\* the file name (README.TXT and readme.txt among them) and of the patterns
\* and extensions.
C9_CaseFold ==
    (mode = "checked" /\ opts.IgnoreCase) =>
        /\ \A v \in CaseVariants(Base(cur.path)) :
               /\ shouldProcessFile(Join(DirWT, v), opts) = quickRes
               /\ matchesPatterns(Join(DirWT, v), patterns, TRUE, lowerCache).ok
                      = matchRes
        /\ \A o \in OptionCaseVariants(opts) :
               /\ shouldProcessFile(cur.path, o) = quickRes
               /\ matchesPatterns(cur.path,
                                  Compiled(preparePatterns(o, lowerCache)),
                                  TRUE, lowerCache).ok = matchRes

\* C9 witness: README.TXT was accepted under IgnoreCase by a pattern written
\* in mixed case.
C9_Witness ==
    /\ mode = "checked"
    /\ opts.IgnoreCase
    /\ Base(cur.path) = NameReadmeUpper
    /\ opts.Patterns = << <<"E", "a">>, <<".", "L", "o", "g">> >>
    /\ quickRes
    /\ matchRes

\* the constraint predicate as the claim states it
StatedConstraint(info, o) ==
    /\ (o.MinSize = 0 \/ info.size >= o.MinSize)
    /\ (o.MaxSize = 0 \/ info.size <= o.MaxSize)
    /\ (o.MinAge = 0 \/ info.age >= o.MinAge)
    /\ (o.MaxAge = 0 \/ info.age <= o.MaxAge)

-----------------------------------------------------------------------------
(* SpecOps: HandleFileOperation run by concurrent file-operation workers  *)
(* on one target directory: copyFile, copyEmptyFile, moveFile and         *)
(* resolveConflict, one action per system call                            *)

\* the latest reading of time.Now().UnixNano() in the model
MaxClock == 2

\* the candidates resolveConflict tries before the random suffix
RenameTries == 100

\* maxPoolSize of copyBufferPool
maxPoolSize == 32

Digits == <<"0", "1", "2", "3", "4", "5", "6", "7", "8", "9">>

RECURSIVE Itoa(_)
\* fmt.Sprintf("%d", n) for n >= 0
Itoa(n) ==
    IF n < 10 THEN << Digits[n + 1] >>
    ELSE Itoa(n \div 10) \o << Digits[(n % 10) + 1] >>

\* strings.TrimSuffix
TrimSuffix(s, suffix) ==
    IF /\ Len(suffix) <= Len(s)
       /\ SubSeq(s, Len(s) - Len(suffix) + 1, Len(s)) = suffix
    THEN SubSeq(s, 1, Len(s) - Len(suffix))
    ELSE s

\* os.Stat(path) succeeds
Exists(fs, path) == path \in DOMAIN fs

\* the filesystem after path was created or rewritten with content data
WriteFile(fs, path, data) ==
    [q \in DOMAIN fs \cup {path} |-> IF q = path THEN data ELSE fs[q]]

\* os.Remove
RemoveFile(fs, path) == [q \in DOMAIN fs \ {path} |-> fs[q]]

\* os.Rename: newpath is replaced when it exists
RenameFile(fs, oldpath, newpath) ==
    WriteFile(RemoveFile(fs, oldpath), newpath, fs[oldpath])

\* fmt.Sprintf("%s_%d_%d%s", base, timestamp, i, ext)
RenameCandidate(path, timestamp, i) ==
    TrimSuffix(path, Ext(path)) \o <<"_">> \o Itoa(timestamp) \o <<"_">>
        \o Itoa(i) \o Ext(path)

\* the 8 random bytes in hex, as far as the model tells them apart
RandomSuffixes == { <<"c", "a", "f", "e">>, <<"f", "0", "0", "d">> }

\* what resolveConflict returns once all numbered candidates exist: the
\* name with a random suffix, or with a new reading of the clock when
\* rand.Read fails
FallbackNames(path, timestamp) ==
    { TrimSuffix(path, Ext(path)) \o <<"_">> \o r \o Ext(path) :
          r \in RandomSuffixes }
    \cup { TrimSuffix(path, Ext(path)) \o <<"_">> \o Itoa(t) \o Ext(path) :
               t \in {u \in timestamp..(timestamp + 1) : u <= MaxClock} }

\* resolveConflict; the empty string is the sentinel of Skip
resolveConflict(fs, path, policy, timestamp, fallback) ==
    IF policy = "Overwrite" THEN path
    ELSE IF Exists(fs, path)
    THEN IF policy = "Skip" THEN <<>>
         ELSE IF policy = "Rename"
         THEN LET free == {i \in 1..RenameTries :
                              ~Exists(fs, RenameCandidate(path, timestamp, i))}
              IN  IF free # {}
                  THEN RenameCandidate(path, timestamp,
                                       CHOOSE i \in free : \A j \in free : i <= j)
                  ELSE fallback
         ELSE path
    ELSE path

TargetDir == <<"/", "u">>

DirV == <<"/", "v">>

\* the final target of every source named a.txt
TargetA == Join(TargetDir, NameA)

\* tmpPath := targetPath + ".tmp"
TmpOf(targetPath) == targetPath \o <<".", "t", "m", "p">>

\* three sources with the same base name; the one under /v is empty
SourceFiles ==
    [p \in {Join(DirW, NameA), Join(DirWT, NameA), Join(DirV, NameA)} |->
        IF p = Join(DirW, NameA) THEN <<"p", "q">>
        ELSE IF p = Join(DirWT, NameA) THEN <<"r", "s">>
        ELSE <<>>]

OldTarget == <<"o", "l", "d">>

\* one task of the processor: path and FileOperationOptions; build tells
\* the copyFile in use, "tmp" (temporary file and rename) or "direct"
\* (process.go: written in place)
FileTask(path, operation, policy, build) ==
    [path |-> path, Operation |-> operation, TargetDir |-> TargetDir,
     ConflictPolicy |-> policy, build |-> build]

\* the tasks run together: two sources of one search, same options
OpsConfigs ==
    { [tasks |-> << FileTask(Join(DirW, NameA), op, pol, "tmp"),
                    FileTask(second, op, pol, "tmp") >>,
       targetExists |-> ex] :
        op \in {"CopyFiles", "MoveFiles"},
        pol \in {"Skip", "Overwrite", "Rename"},
        second \in {Join(DirWT, NameA), Join(DirV, NameA)},
        ex \in BOOLEAN }
    \cup
    { [tasks |-> << FileTask(Join(DirW, NameA), op, "Overwrite", "direct") >>,
       targetExists |-> ex] :
        op \in {"CopyFiles", "MoveFiles"}, ex \in BOOLEAN }

Ops == DOMAIN otask

\* what one call of HandleFileOperation has done so far
NoLog ==
    [inMove |-> FALSE, skipped |-> FALSE, renamed |-> FALSE, copied |-> FALSE,
     copySkipped |-> FALSE, copyErr |-> FALSE, removed |-> FALSE,
     wroteTarget |-> FALSE, over |-> FALSE]

\* no Search runs: the engine's state is that of a fresh process
EngineIdle ==
    /\ opts = DefaultOptions
    /\ patterns = EmptyCompiled
    /\ lowerCache = EmptyCache
    /\ stopClosed = FALSE
    /\ paths = <<>>
    /\ pathsClosed = 0
    /\ results = <<>>
    /\ resultsClosed = 0
    /\ sendOnClosed = {}
    /\ wpc = <<>>
    /\ wstack = <<>>
    /\ wcall = <<>>
    /\ wAfterStop = <<>>
    /\ mpc = <<>>
    /\ mbatch = <<>>
    /\ mi = <<>>
    /\ mexit = <<>>
    /\ mres = <<>>
    /\ mAfterStop = <<>>
    /\ seen = {}
    /\ mu = 0
    /\ addedDup = FALSE
    /\ cpc = "walkWait"
    /\ consumer = "reading"
    /\ delivered = <<>>
    /\ cur = NoFile
    /\ quickRes = FALSE
    /\ matchRes = FALSE
    /\ consRes = FALSE
    /\ reportRes = FALSE

engineVars == << mode, opts, patterns, lowerCache, searchVars, matchVars >>

\* the workers have taken their tasks; the sources exist, the target
\* directory holds a.txt or is empty
OpsInit ==
    /\ mode = "ops"
    /\ EngineIdle
    /\ NoProcessor
    /\ NoBuffers
    /\ NoLogger
    /\ NoCli
    /\ NoHistory
    /\ NoUnits
    /\ \E c \in OpsConfigs :
        /\ otask = c.tasks
        /\ files = IF c.targetExists
                   THEN WriteFile(SourceFiles, TargetA, OldTarget)
                   ELSE SourceFiles
    /\ clock = 1
    /\ opc = [k \in Ops |-> "handle"]
    /\ oinfo = [k \in Ops |-> [size |-> 0, data |-> <<>>]]
    /\ otarget = [k \in Ops |-> <<>>]
    /\ otmp = [k \in Ops |-> <<>>]
    /\ owritten = [k \in Ops |-> 0]
    /\ oret = [k \in Ops |-> "running"]
    /\ olog = [k \in Ops |-> NoLog]


\* HandleFileOperation returns ret
Finish(k, ret) ==
    /\ opc' = [opc EXCEPT ![k] = "done"]
    /\ oret' = [oret EXCEPT ![k] = ret]

\* copyFile returns nil: HandleFileOperation returns it, moveFile goes on
\* to remove the source
AfterCopy(k) ==
    IF olog[k].inMove
    THEN /\ opc' = [opc EXCEPT ![k] = "mremove"]
         /\ UNCHANGED oret
    ELSE Finish(k, "ok")

\* copyFile returns an error before it has created its temporary file
CopyFail(k) ==
    /\ Finish(k, "err")
    /\ olog' = [olog EXCEPT ![k].copyErr = TRUE]

\* copyFile returns an error after it has created its temporary file: the
\* deferred os.Remove(tmpPath) runs
CopyFailRemoveTemp(k) ==
    /\ Finish(k, "err")
    /\ olog' = [olog EXCEPT ![k].copyErr = TRUE]
    /\ files' = RemoveFile(files, otmp[k])
    /\ otmp' = [otmp EXCEPT ![k] = <<>>]

\* the readings of the clock resolveConflict can get
ClockReadings(path, policy) ==
    IF policy = "Rename" /\ Exists(files, path)
    THEN {t \in clock..(clock + 1) : t <= MaxClock}
    ELSE {clock}

\* HandleFileOperation up to its switch: os.Stat of the source, the access
\* and target-directory checks
\* HandleFileOperation runs: called directly, or by the workers of a
\* processor
RunsFileOps == mode \in {"ops", "pool"}

HandleFileOperation(k) ==
    /\ RunsFileOps
    /\ opc[k] = "handle"
    /\ \/ /\ Exists(files, otask[k].path)
          /\ oinfo' = [oinfo EXCEPT ![k].size = Len(files[otask[k].path])]
          /\ opc' = [opc EXCEPT ![k] = IF otask[k].Operation = "CopyFiles"
                                        THEN "resolve" ELSE "mresolve"]
          /\ UNCHANGED oret
       \/ /\ Finish(k, "err")
          /\ UNCHANGED oinfo
    /\ UNCHANGED << files, clock, otask, otarget, otmp, owritten, olog,
                    procVars, extraVars, engineVars >>

\* BufferPool.count after Get: counted while the pool is below its
\* maximum, sync.Pool.Get never giving nil as the pool has a New function.
\* BufferPool.Put, deferred by copyFile, gives the buffer back and leaves
\* count as it is
BufferPoolGet(count) == IF count < maxPoolSize THEN count + 1 ELSE count

\* copyFile up to the open of the source: resolveConflict, the skip
\* sentinel, the empty-file case and copyBufferPool.Get
CopyResolve(k) ==
    /\ RunsFileOps
    /\ opc[k] = "resolve"
    /\ LET path == Join(otask[k].TargetDir, Base(otask[k].path))
       IN  \E ts \in ClockReadings(path, otask[k].ConflictPolicy) :
           \E fallback \in FallbackNames(path, ts) :
             LET targetPath == resolveConflict(files, path,
                                   otask[k].ConflictPolicy, ts, fallback)
             IN  /\ clock' = ts
                 /\ IF targetPath = <<>>
                    THEN /\ olog' = [olog EXCEPT
                                ![k].skipped = ~olog[k].inMove,
                                ![k].copySkipped = olog[k].inMove]
                         /\ AfterCopy(k)
                         /\ UNCHANGED << otarget, copyCount >>
                    ELSE /\ otarget' = [otarget EXCEPT ![k] = targetPath]
                         /\ opc' = [opc EXCEPT ![k] =
                                IF otask[k].build = "tmp" /\ oinfo[k].size = 0
                                THEN "empty" ELSE "open"]
                         /\ copyCount' =
                                IF otask[k].build = "tmp" /\ oinfo[k].size # 0
                                THEN BufferPoolGet(copyCount)
                                ELSE copyCount
                         /\ UNCHANGED << oret, olog >>
    /\ UNCHANGED << files, otask, oinfo, otmp, owritten, procVars, poolVars,
                    readOut, outerVars, engineVars >>

\* copyEmptyFile: os.OpenFile(dst, O_WRONLY|O_CREATE|O_TRUNC, mode)
CopyEmptyFile(k) ==
    /\ RunsFileOps
    /\ opc[k] = "empty"
    /\ \/ /\ files' = WriteFile(files, otarget[k], <<>>)
          /\ olog' = [olog EXCEPT ![k].copied = TRUE, ![k].wroteTarget = TRUE,
                                  ![k].over = Exists(files, otarget[k])]
          /\ AfterCopy(k)
       \/ /\ CopyFail(k)
          /\ UNCHANGED files
    /\ UNCHANGED << clock, otask, oinfo, otarget, otmp, owritten, procVars, extraVars, engineVars >>

\* copyFile: os.OpenFile(src, os.O_RDONLY, 0)
CopyOpenSource(k) ==
    /\ RunsFileOps
    /\ opc[k] = "open"
    /\ \/ /\ Exists(files, otask[k].path)
          /\ oinfo' = [oinfo EXCEPT ![k].data = files[otask[k].path]]
          /\ opc' = [opc EXCEPT ![k] = IF otask[k].build = "tmp"
                                        THEN "create" ELSE "dcreate"]
          /\ UNCHANGED << oret, olog >>
       \/ /\ CopyFail(k)
          /\ UNCHANGED oinfo
    /\ UNCHANGED << files, clock, otask, otarget, otmp, owritten, procVars, extraVars, engineVars >>

\* copyFile: os.OpenFile(tmpPath, O_WRONLY|O_CREATE|O_EXCL, mode)
CopyCreateTemp(k) ==
    /\ RunsFileOps
    /\ opc[k] = "create"
    /\ \/ /\ ~Exists(files, TmpOf(otarget[k]))
          /\ files' = WriteFile(files, TmpOf(otarget[k]), <<>>)
          /\ otmp' = [otmp EXCEPT ![k] = TmpOf(otarget[k])]
          /\ opc' = [opc EXCEPT ![k] = "copy"]
          /\ UNCHANGED << oret, olog >>
       \/ /\ CopyFail(k)
          /\ UNCHANGED << files, otmp >>
    /\ UNCHANGED << clock, otask, oinfo, otarget, owritten, procVars, extraVars, engineVars >>

\* copyFile: io.CopyBuffer one byte further, its error, and at the end of
\* the source the comparison of written with size
CopyWrite(k) ==
    /\ RunsFileOps
    /\ opc[k] = "copy"
    /\ IF owritten[k] < Len(oinfo[k].data)
       THEN \/ /\ files' = WriteFile(files, otmp[k],
                       Append(files[otmp[k]], oinfo[k].data[owritten[k] + 1]))
               /\ owritten' = [owritten EXCEPT ![k] = owritten[k] + 1]
               /\ UNCHANGED << opc, oret, olog, otmp >>
            \/ /\ CopyFailRemoveTemp(k)
               /\ UNCHANGED owritten
       ELSE IF owritten[k] # oinfo[k].size
       THEN /\ CopyFailRemoveTemp(k)
            /\ UNCHANGED owritten
       ELSE /\ opc' = [opc EXCEPT ![k] = "sync"]
            /\ UNCHANGED << files, owritten, oret, olog, otmp >>
    /\ UNCHANGED << clock, otask, oinfo, otarget, procVars, extraVars, engineVars >>

\* copyFile: dstFile.Sync and dstFile.Close
CopySync(k) ==
    /\ RunsFileOps
    /\ opc[k] = "sync"
    /\ \/ /\ opc' = [opc EXCEPT ![k] = "rename"]
          /\ UNCHANGED << files, otmp, oret, olog >>
       \/ CopyFailRemoveTemp(k)
    /\ UNCHANGED << clock, otask, oinfo, otarget, owritten, procVars, extraVars, engineVars >>

\* copyFile that copies the temporary file onto the target and leaves it
CopyRenameKeepsTemp(k) ==
    /\ RunsFileOps
    /\ opc[k] = "rename"
    /\ \/ /\ files' = WriteFile(files, otarget[k], files[otmp[k]])
          /\ otmp' = [otmp EXCEPT ![k] = <<>>]
          /\ olog' = [olog EXCEPT ![k].copied = TRUE, ![k].wroteTarget = TRUE,
                                  ![k].over = Exists(files, otarget[k])]
          /\ AfterCopy(k)
       \/ CopyFailRemoveTemp(k)
    /\ UNCHANGED << clock, otask, oinfo, otarget, owritten, procVars, extraVars, engineVars >>

\* copyFile: os.Rename(tmpPath, targetPath)
CopyRename(k) ==
    /\ RunsFileOps
    /\ opc[k] = "rename"
    /\ \/ /\ files' = RenameFile(files, otmp[k], otarget[k])
          /\ otmp' = [otmp EXCEPT ![k] = <<>>]
          /\ olog' = [olog EXCEPT ![k].copied = TRUE, ![k].wroteTarget = TRUE,
                                  ![k].over = Exists(files, otarget[k])]
          /\ AfterCopy(k)
       \/ CopyFailRemoveTemp(k)
    /\ UNCHANGED << clock, otask, oinfo, otarget, owritten, procVars, extraVars, engineVars >>

\* copyFile of process.go: os.OpenFile(targetPath, O_WRONLY|O_CREATE|O_TRUNC)
DirectCreate(k) ==
    /\ RunsFileOps
    /\ opc[k] = "dcreate"
    /\ \/ /\ files' = WriteFile(files, otarget[k], <<>>)
          /\ olog' = [olog EXCEPT ![k].wroteTarget = TRUE,
                                  ![k].over = Exists(files, otarget[k])]
          /\ opc' = [opc EXCEPT ![k] = "dcopy"]
          /\ UNCHANGED oret
       \/ /\ CopyFail(k)
          /\ UNCHANGED files
    /\ UNCHANGED << clock, otask, oinfo, otarget, otmp, owritten, procVars, extraVars, engineVars >>

\* copyFile of process.go: io.CopyBuffer into the target, one byte further
DirectWrite(k) ==
    /\ RunsFileOps
    /\ opc[k] = "dcopy"
    /\ IF owritten[k] < Len(oinfo[k].data)
       THEN \/ /\ files' = WriteFile(files, otarget[k],
                       Append(files[otarget[k]], oinfo[k].data[owritten[k] + 1]))
               /\ owritten' = [owritten EXCEPT ![k] = owritten[k] + 1]
               /\ UNCHANGED << opc, oret, olog >>
            \/ /\ CopyFail(k)
               /\ UNCHANGED << files, owritten >>
       ELSE /\ olog' = [olog EXCEPT ![k].copied = TRUE]
            /\ AfterCopy(k)
            /\ UNCHANGED << files, owritten >>
    /\ UNCHANGED << clock, otask, oinfo, otarget, otmp, procVars, extraVars, engineVars >>

\* moveFile up to the rename: resolveConflict, the skip sentinel and
\* checkFileWritable(src)
MoveResolve(k) ==
    /\ RunsFileOps
    /\ opc[k] = "mresolve"
    /\ LET path == Join(otask[k].TargetDir, Base(otask[k].path))
       IN  \E ts \in ClockReadings(path, otask[k].ConflictPolicy) :
           \E fallback \in FallbackNames(path, ts) :
             LET targetPath == resolveConflict(files, path,
                                   otask[k].ConflictPolicy, ts, fallback)
             IN  /\ clock' = ts
                 /\ IF targetPath = <<>>
                    THEN /\ olog' = [olog EXCEPT ![k].skipped = TRUE]
                         /\ Finish(k, "ok")
                         /\ UNCHANGED otarget
                    ELSE \/ /\ Exists(files, otask[k].path)
                            /\ otarget' = [otarget EXCEPT ![k] = targetPath]
                            /\ opc' = [opc EXCEPT ![k] = "mrename"]
                            /\ UNCHANGED << oret, olog >>
                         \/ /\ Finish(k, "err")
                            /\ UNCHANGED << otarget, olog >>
    /\ UNCHANGED << files, otask, oinfo, otmp, owritten, procVars, extraVars, engineVars >>

\* moveFile: os.Rename(src, targetPath); when it fails, copyFile is called
MoveRename(k) ==
    /\ RunsFileOps
    /\ opc[k] = "mrename"
    /\ \/ /\ Exists(files, otask[k].path)
          /\ files' = RenameFile(files, otask[k].path, otarget[k])
          /\ olog' = [olog EXCEPT ![k].renamed = TRUE, ![k].wroteTarget = TRUE,
                                  ![k].over = Exists(files, otarget[k])]
          /\ Finish(k, "ok")
       \/ /\ olog' = [olog EXCEPT ![k].inMove = TRUE]
          /\ opc' = [opc EXCEPT ![k] = "resolve"]
          /\ UNCHANGED << files, oret >>
    /\ UNCHANGED << clock, otask, oinfo, otarget, otmp, owritten, procVars, extraVars, engineVars >>

\* moveFile that returns nil whatever os.Remove(src) returned
MoveRemoveIgnoresError(k) ==
    /\ RunsFileOps
    /\ opc[k] = "mremove"
    /\ \/ /\ Exists(files, otask[k].path)
          /\ files' = RemoveFile(files, otask[k].path)
          /\ olog' = [olog EXCEPT ![k].removed = TRUE]
          /\ Finish(k, "ok")
       \/ /\ Finish(k, "ok")
          /\ UNCHANGED << files, olog >>
    /\ UNCHANGED << clock, otask, oinfo, otarget, otmp, owritten, procVars, extraVars, engineVars >>

\* moveFile: os.Remove(src) after the copy
MoveRemove(k) ==
    /\ RunsFileOps
    /\ opc[k] = "mremove"
    /\ \/ /\ Exists(files, otask[k].path)
          /\ files' = RemoveFile(files, otask[k].path)
          /\ olog' = [olog EXCEPT ![k].removed = TRUE]
          /\ Finish(k, "ok")
       \/ /\ Finish(k, "err")
          /\ UNCHANGED << files, olog >>
    /\ UNCHANGED << clock, otask, oinfo, otarget, otmp, owritten, procVars, extraVars, engineVars >>

NextOps ==
    \/ \E k \in Ops : HandleFileOperation(k)
    \/ \E k \in Ops : CopyResolve(k)
    \/ \E k \in Ops : CopyEmptyFile(k)
    \/ \E k \in Ops : CopyOpenSource(k)
    \/ \E k \in Ops : CopyCreateTemp(k)
    \/ \E k \in Ops : CopyWrite(k)
    \/ \E k \in Ops : CopySync(k)
    \/ \E k \in Ops : CopyRename(k)
    \/ \E k \in Ops : DirectCreate(k)
    \/ \E k \in Ops : DirectWrite(k)
    \/ \E k \in Ops : MoveResolve(k)
    \/ \E k \in Ops : MoveRename(k)
    \/ \E k \in Ops : MoveRemove(k)

SpecOps == OpsInit /\ [][NextOps]_vars

-----------------------------------------------------------------------------
(* SpecProc: one FileOperationProcessor -- Start, Stop and Add called by  *)
(* concurrent goroutines, and its worker goroutines                       *)

\* ProcessorOptions.Workers
PoolWorkers == 1

\* ProcessorOptions.MaxQueueSize
QueueCap == 1

\* the calls made on the processor, one goroutine each
ProcConfigs ==
    { <<"Start", "Add", "Add", "Add">>,
      <<"Start", "Stop", "Stop", "Add">>,
      <<"Start", "Start", "Stop">> }

Clients == DOMAIN tcall

WorkerIds == DOMAIN pworkers

\* the worker goroutines that have not returned
LiveWorkers == {w \in WorkerIds : pworkers[w] # "exited"}

\* NewFileOperationProcessor: nothing started, the queue empty and open
ProcInit ==
    /\ mode = "proc"
    /\ EngineIdle
    /\ NoFileOperation
    /\ pcfg = [Workers |-> PoolWorkers, MaxQueueSize |-> QueueCap,
               maxWorkers |-> PoolWorkers * 2]
    /\ pstarted = FALSE
    /\ pstopped = FALSE
    /\ pqueue = <<>>
    /\ pqueueClosed = 0
    /\ pfieldNil = FALSE
    /\ pstopClosed = FALSE
    /\ pwg = 0
    /\ pcurrent = 0
    /\ pworkers = <<>>
    /\ tcall \in ProcConfigs
    /\ tpc = [t \in Clients |-> "call"]
    /\ tret = [t \in Clients |-> "running"]
    /\ pbusy = <<>>
    /\ preport = <<>>
    /\ perrlog = <<>>
    /\ NoBuffers
    /\ NoLogger
    /\ NoCli
    /\ NoHistory
    /\ NoUnits

\* the caller returns ret
Return(t, ret) ==
    /\ tpc' = [tpc EXCEPT ![t] = "done"]
    /\ tret' = [tret EXCEPT ![t] = ret]

\* n more worker goroutines: wg.Add(1); go p.worker()
Spawn(n) ==
    /\ pworkers' = pworkers \o [i \in 1..n |-> "idle"]
    /\ pwg' = pwg + n

\* Start that does not look at p.stopped
StartIgnoresStopped(t) ==
    /\ mode = "proc"
    /\ tcall[t] = "Start"
    /\ tpc[t] = "call"
    /\ IF pstarted
       THEN /\ Return(t, "processor already started")
            /\ UNCHANGED << pstarted, pworkers, pwg >>
       ELSE /\ pstarted' = TRUE
            /\ Spawn(pcfg.Workers)
            /\ Return(t, "nil")
    /\ UNCHANGED << pcfg, pstopped, pqueue, pqueueClosed, pfieldNil,
                    pstopClosed, pcurrent, tcall, opsVars, extraVars, engineVars >>

\* Start, the whole method under p.mu
Start(t) ==
    /\ mode = "proc"
    /\ tcall[t] = "Start"
    /\ tpc[t] = "call"
    /\ IF pstarted
       THEN /\ Return(t, "processor already started")
            /\ UNCHANGED << pstarted, pworkers, pwg >>
       ELSE IF pstopped
       THEN /\ Return(t, "processor has been stopped")
            /\ UNCHANGED << pstarted, pworkers, pwg >>
       ELSE /\ pstarted' = TRUE
            /\ Spawn(pcfg.Workers)
            /\ Return(t, "nil")
    /\ UNCHANGED << pcfg, pstopped, pqueue, pqueueClosed, pfieldNil,
                    pstopClosed, pcurrent, tcall, opsVars, extraVars, engineVars >>

\* a FileOperationProcessor exists: on its own, with its workers running
\* file operations, or created by Search
RunsProcessor == mode \in {"proc", "pool", "search"}

\* Stop, first critical section: stopped, cancel(), close(stopChan)
StopSignal(t) ==
    /\ RunsProcessor
    /\ tcall[t] = "Stop"
    /\ tpc[t] = "call"
    /\ IF pstopped
       THEN /\ Return(t, "nil")
            /\ UNCHANGED << pstopped, pstopClosed >>
       ELSE /\ pstopped' = TRUE
            /\ pstopClosed' = TRUE
            /\ tpc' = [tpc EXCEPT ![t] = "wait"]
            /\ UNCHANGED tret
    /\ UNCHANGED << pcfg, pstarted, pqueue, pqueueClosed, pfieldNil, pwg,
                    pcurrent, pworkers, tcall, opsVars, extraVars, engineVars >>

\* p.wg.Wait() returns once the counter is zero
WaitGroupDone == pwg = 0

\* Stop: p.wg.Wait()
StopWait(t) ==
    /\ RunsProcessor
    /\ tcall[t] = "Stop"
    /\ tpc[t] = "wait"
    /\ WaitGroupDone
    /\ tpc' = [tpc EXCEPT ![t] = "close"]
    /\ UNCHANGED << pcfg, pstarted, pstopped, pqueue, pqueueClosed, pfieldNil,
                    pstopClosed, pwg, pcurrent, pworkers, tcall, tret,
                    opsVars, extraVars, engineVars >>

\* Stop, second critical section: close(p.opChan); p.opChan = nil
StopClose(t) ==
    /\ RunsProcessor
    /\ tcall[t] = "Stop"
    /\ tpc[t] = "close"
    /\ IF ~pfieldNil
       THEN /\ pqueueClosed' = pqueueClosed + 1
            /\ pfieldNil' = TRUE
       ELSE UNCHANGED << pqueueClosed, pfieldNil >>
    /\ Return(t, "nil")
    /\ UNCHANGED << pcfg, pstarted, pstopped, pqueue, pstopClosed, pwg,
                    pcurrent, pworkers, tcall, opsVars, extraVars, engineVars >>

\* Add, the check under p.mu
AddCheck(t) ==
    /\ RunsProcessor
    /\ tcall[t] = "Add"
    /\ tpc[t] = "call"
    /\ IF pstopped \/ pfieldNil
       THEN Return(t, "processor is stopped")
       ELSE /\ tpc' = [tpc EXCEPT ![t] = "tick"]
            /\ UNCHANGED tret
    /\ UNCHANGED << pcfg, pstarted, pstopped, pqueue, pqueueClosed, pfieldNil,
                    pstopClosed, pwg, pcurrent, pworkers, tcall, opsVars, extraVars,
                    engineVars >>

\* Add: <-p.throttle.C
AddTick(t) ==
    /\ RunsProcessor
    /\ tcall[t] = "Add"
    /\ tpc[t] = "tick"
    /\ tpc' = [tpc EXCEPT ![t] = "select"]
    /\ UNCHANGED << pcfg, pstarted, pstopped, pqueue, pqueueClosed, pfieldNil,
                    pstopClosed, pwg, pcurrent, pworkers, tcall, tret,
                    opsVars, extraVars, engineVars >>

\* Add: the select over the send into p.opChan, stopChan and ctx.Done, with
\* its default. p.opChan is read without p.mu: once Stop has set the field
\* to nil the read gives nil (the send is never ready) or the closed
\* channel (the send panics)
AddSelect(t) ==
    /\ RunsProcessor
    /\ tcall[t] = "Add"
    /\ tpc[t] = "select"
    /\ \/ /\ pqueueClosed = 0
          /\ Len(pqueue) < pcfg.MaxQueueSize
          /\ pqueue' = Append(pqueue, t)
          /\ Return(t, "nil")
       \/ /\ pqueueClosed > 0
          /\ Return(t, "panic: send on closed channel")
          /\ UNCHANGED pqueue
       \/ /\ pstopClosed
          /\ Return(t, "processor is stopping")
          /\ UNCHANGED pqueue
       \/ /\ ~pstopClosed
          /\ pqueueClosed = 0
          /\ Len(pqueue) >= pcfg.MaxQueueSize
          /\ tpc' = [tpc EXCEPT ![t] = "load"]
          /\ UNCHANGED << pqueue, tret >>
    /\ UNCHANGED << pcfg, pstarted, pstopped, pqueueClosed, pfieldNil,
                    pstopClosed, pwg, pcurrent, pworkers, tcall, opsVars, extraVars,
                    engineVars >>

\* Add, default case: atomic.LoadInt32(&p.currentWorkers) < p.maxWorkers
AddLoad(t) ==
    /\ RunsProcessor
    /\ tcall[t] = "Add"
    /\ tpc[t] = "load"
    /\ IF pcurrent < pcfg.maxWorkers
       THEN /\ tpc' = [tpc EXCEPT ![t] = "spawn"]
            /\ UNCHANGED tret
       ELSE Return(t, "operation queue is full")
    /\ UNCHANGED << pcfg, pstarted, pstopped, pqueue, pqueueClosed, pfieldNil,
                    pstopClosed, pwg, pcurrent, pworkers, tcall, opsVars, extraVars,
                    engineVars >>

\* Add, default case: one more worker under p.mu unless stopped
AddSpawn(t) ==
    /\ RunsProcessor
    /\ tcall[t] = "Add"
    /\ tpc[t] = "spawn"
    /\ IF ~pstopped
       THEN /\ Spawn(1)
            /\ pcurrent' = pcurrent + 1
       ELSE UNCHANGED << pworkers, pwg, pcurrent >>
    /\ Return(t, "operation queue is full")
    /\ UNCHANGED << pcfg, pstarted, pstopped, pqueue, pqueueClosed, pfieldNil,
                    pstopClosed, tcall, opsVars, extraVars, engineVars >>

\* a worker whose select has no stopChan and no ctx.Done case
WorkerSelectQueueOnly(w) ==
    /\ RunsProcessor
    /\ pworkers[w] = "idle"
    /\ \/ /\ pqueue # <<>>
          /\ pqueue' = Tail(pqueue)
          /\ pworkers' = [pworkers EXCEPT ![w] = "busy"]
          /\ UNCHANGED pwg
       \/ /\ pqueue = <<>> /\ pqueueClosed > 0
          /\ pworkers' = [pworkers EXCEPT ![w] = "exited"]
          /\ pwg' = pwg - 1
          /\ UNCHANGED pqueue
    /\ UNCHANGED << pcfg, pstarted, pstopped, pqueueClosed, pfieldNil,
                    pstopClosed, pcurrent, tcall, tpc, tret, opsVars, extraVars,
                    engineVars >>

\* worker: the select over p.opChan, stopChan and ctx.Done
WorkerSelect(w) ==
    /\ RunsProcessor
    /\ pworkers[w] = "idle"
    /\ \/ /\ pqueue # <<>>
          /\ pqueue' = Tail(pqueue)
          /\ pworkers' = [pworkers EXCEPT ![w] = "busy"]
          /\ UNCHANGED pwg
       \/ /\ \/ pstopClosed
             \/ pqueue = <<>> /\ pqueueClosed > 0
          /\ pworkers' = [pworkers EXCEPT ![w] = "exited"]
          /\ pwg' = pwg - 1
          /\ UNCHANGED pqueue
    /\ UNCHANGED << pcfg, pstarted, pstopped, pqueueClosed, pfieldNil,
                    pstopClosed, pcurrent, tcall, tpc, tret, opsVars, extraVars,
                    engineVars >>

\* worker: processOperation returns, HandleFileOperation being done or the
\* context cancelled
WorkerProcessed(w) ==
    /\ RunsProcessor
    /\ pworkers[w] = "busy"
    /\ pworkers' = [pworkers EXCEPT ![w] = "idle"]
    /\ UNCHANGED << pcfg, pstarted, pstopped, pqueue, pqueueClosed, pfieldNil,
                    pstopClosed, pwg, pcurrent, tcall, tpc, tret, opsVars, extraVars,
                    engineVars >>

NextProc ==
    \/ \E t \in Clients : Start(t)
    \/ \E t \in Clients : StopSignal(t)
    \/ \E t \in Clients : StopWait(t)
    \/ \E t \in Clients : StopClose(t)
    \/ \E t \in Clients : AddCheck(t)
    \/ \E t \in Clients : AddTick(t)
    \/ \E t \in Clients : AddSelect(t)
    \/ \E t \in Clients : AddLoad(t)
    \/ \E t \in Clients : AddSpawn(t)
    \/ \E w \in WorkerIds : WorkerSelect(w)
    \/ \E w \in WorkerIds : WorkerProcessed(w)

SpecProc == ProcInit /\ [][NextProc]_vars

-----------------------------------------------------------------------------
(* ReadingSpec: Search under fairness, with and without a file operation, *)
(* read by a consumer that receives whenever it can                       *)

\* the searches of FairSpec, and one that copies every file it finds
LiveConfigs ==
    FairConfigs \cup {[DefaultOptions EXCEPT !.FileOp = "CopyFiles"]}

\* NewFileOperationProcessor and Start as Search calls them: MaxWorkers / 2
\* workers wait in their select; the matchers will call Add and the closer
\* goroutine Stop. The queue has QueueCap places
StartedProcessor ==
    /\ pcfg = [Workers |-> opts.MaxWorkers \div 2, MaxQueueSize |-> QueueCap,
               maxWorkers |-> (opts.MaxWorkers \div 2) * 2]
    /\ pstarted = TRUE
    /\ pstopped = FALSE
    /\ pqueue = <<>>
    /\ pqueueClosed = 0
    /\ pfieldNil = FALSE
    /\ pstopClosed = FALSE
    /\ pwg = opts.MaxWorkers \div 2
    /\ pcurrent = 0
    /\ pworkers = [w \in 1..(opts.MaxWorkers \div 2) |-> "idle"]
    /\ tcall = [t \in 1..StopCaller |->
                    IF t = StopCaller THEN "Stop" ELSE "Add"]
    /\ tpc = [t \in 1..StopCaller |-> "idle"]
    /\ tret = [t \in 1..StopCaller |-> "running"]
    /\ pbusy = <<>>
    /\ preport = <<>>
    /\ perrlog = <<>>

LiveInit ==
    /\ SearchStart(LiveConfigs)
    /\ IF UsesFileOp THEN StartedProcessor ELSE NoProcessor

\* processFileBatch: fileOpProcessor.Add(path, opts.FileOp, info) is called
MatcherFileOp(m) ==
    /\ mode = "search"
    /\ mpc[m] = "fileop"
    /\ mpc' = [mpc EXCEPT ![m] = "opwait"]
    /\ tpc' = [tpc EXCEPT ![m] = "call"]
    /\ UNCHANGED << tret, tcall, pcfg, pstarted, pstopped, pqueue, pqueueClosed,
                    pfieldNil, pstopClosed, pwg, pcurrent, pworkers, opsVars,
                    extraVars, mode, opts, patterns, lowerCache, stopClosed,
                    paths, pathsClosed, results, resultsClosed, sendOnClosed,
                    wpc, wstack, wcall, wAfterStop, mbatch, mi, mexit, mres,
                    mAfterStop, seen, mu, addedDup, cpc, consumer, delivered,
                    matchVars >>

\* fileOpProcessor.Add has returned (its error is dropped): the loop of
\* processFileBatch moves on
MatcherFileOpDone(m) ==
    /\ mode = "search"
    /\ mpc[m] = "opwait"
    /\ tpc[m] = "done"
    /\ ItemDone(m)
    /\ tpc' = [tpc EXCEPT ![m] = "idle"]
    /\ tret' = [tret EXCEPT ![m] = "running"]
    /\ UNCHANGED << tcall, pcfg, pstarted, pstopped, pqueue, pqueueClosed,
                    pfieldNil, pstopClosed, pwg, pcurrent, pworkers, opsVars,
                    poolVars, copyCount, outerVars, mode, opts, patterns,
                    lowerCache, stopClosed, paths, pathsClosed, results,
                    resultsClosed, sendOnClosed, wpc, wstack, wcall,
                    wAfterStop, mres, mAfterStop, seen, mu, addedDup, cpc,
                    consumer, delivered, matchVars >>

\* the closer goroutine: wg.Wait() has returned and fileOpProcessor.Stop()
\* is called
CloserStop ==
    /\ mode = "search"
    /\ UsesFileOp
    /\ cpc = "wgWait"
    /\ WgDone
    /\ cpc' = "stop"
    /\ tpc' = [tpc EXCEPT ![StopCaller] = "call"]
    /\ UNCHANGED << tret, tcall, pcfg, pstarted, pstopped, pqueue, pqueueClosed,
                    pfieldNil, pstopClosed, pwg, pcurrent, pworkers, opsVars,
                    extraVars, mode, opts, patterns, lowerCache, stopClosed,
                    paths, pathsClosed, results, resultsClosed, sendOnClosed,
                    wpc, wstack, wcall, wAfterStop, mpc, mbatch, mi, mexit,
                    mres, mAfterStop, seen, mu, addedDup, consumer, delivered,
                    matchVars >>

\* the steps of Add and of Stop made by caller t
AddStep(t) ==
    AddCheck(t) \/ AddTick(t) \/ AddSelect(t) \/ AddLoad(t) \/ AddSpawn(t)

StopStep(t) == StopSignal(t) \/ StopWait(t) \/ StopClose(t)

WorkerStep(w) == WorkerSelect(w) \/ WorkerProcessed(w)

NextLive ==
    \/ Next
    \/ \E m \in Matchers : MatcherFileOp(m)
    \/ \E m \in Matchers : MatcherFileOpDone(m)
    \/ CloserStop
    \/ \E t \in Clients : AddCheck(t)
    \/ \E t \in Clients : AddTick(t)
    \/ \E t \in Clients : AddSelect(t)
    \/ \E t \in Clients : AddLoad(t)
    \/ \E t \in Clients : AddSpawn(t)
    \/ \E t \in Clients : StopSignal(t)
    \/ \E t \in Clients : StopWait(t)
    \/ \E t \in Clients : StopClose(t)
    \/ \E w \in WorkerIds : WorkerSelect(w)
    \/ \E w \in WorkerIds : WorkerProcessed(w)

\* every goroutine that can take a step eventually takes one: walkers,
\* matchers (inside Add too), the closer (inside Stop too), the workers of
\* the processor, and the consumer whenever it can receive
ReadingSpec ==
    /\ LiveInit
    /\ [][NextLive]_vars
    /\ \A w \in 1..MaxRoots : WF_vars(w \in Walkers /\ WalkerStep(w))
    /\ \A m \in 1..NumMatchers :
            WF_vars(\/ MatcherStep(m)
                    \/ MatcherFileOp(m)
                    \/ MatcherFileOpDone(m)
                    \/ m \in Clients /\ AddStep(m))
    /\ WF_vars(\/ CloserStep
               \/ CloserStop
               \/ StopCaller \in Clients /\ StopStep(StopCaller))
    /\ \A w \in 1..(3 * NumMatchers) :
            WF_vars(w \in WorkerIds /\ WorkerStep(w))
    /\ WF_vars(ConsumerRecv)

-----------------------------------------------------------------------------
(* SpecPool: the workers of a started FileOperationProcessor run the      *)
(* queued tasks; processOperation waits for HandleFileOperation or for    *)
(* the end of the task's context                                          *)

\* a source path at which no file exists
MissingSource == Join(DirW, NameB)

\* the tasks queued by Add before any worker has run, same options
PoolConfigs ==
    { [tasks |-> << FileTask(first, "CopyFiles", pol, "tmp"),
                    FileTask(Join(DirWT, NameA), "CopyFiles", pol, "tmp") >>,
       targetExists |-> ex] :
        first \in {Join(DirW, NameA), MissingSource},
        pol \in {"Skip", "Overwrite"},
        ex \in BOOLEAN }

\* Start has returned nil and Add has queued every task: the workers wait
\* in their select, no HandleFileOperation runs yet; calls are the calls
\* of the processor that other goroutines are about to make
PoolStarted(calls) ==
    /\ mode = "pool"
    /\ EngineIdle
    /\ \E c \in PoolConfigs :
        /\ otask = c.tasks
        /\ files = IF c.targetExists
                   THEN WriteFile(SourceFiles, TargetA, OldTarget)
                   ELSE SourceFiles
    /\ clock = 1
    /\ opc = [k \in Ops |-> "queued"]
    /\ oinfo = [k \in Ops |-> [size |-> 0, data |-> <<>>]]
    /\ otarget = [k \in Ops |-> <<>>]
    /\ otmp = [k \in Ops |-> <<>>]
    /\ owritten = [k \in Ops |-> 0]
    /\ oret = [k \in Ops |-> "running"]
    /\ olog = [k \in Ops |-> NoLog]
    /\ pcfg = [Workers |-> PoolWorkers, MaxQueueSize |-> Len(otask),
               maxWorkers |-> PoolWorkers * 2]
    /\ pstarted = TRUE
    /\ pstopped = FALSE
    /\ pqueue = [k \in Ops |-> k]
    /\ pqueueClosed = 0
    /\ pfieldNil = FALSE
    /\ pstopClosed = FALSE
    /\ pwg = PoolWorkers
    /\ pcurrent = 0
    /\ pworkers = [w \in 1..PoolWorkers |-> "idle"]
    /\ tcall = calls
    /\ tpc = [t \in DOMAIN calls |-> "call"]
    /\ tret = [t \in DOMAIN calls |-> "running"]
    /\ pbusy = [w \in 1..PoolWorkers |-> 0]
    /\ preport = [k \in Ops |-> "none"]
    /\ perrlog = <<>>
    /\ NoBuffers
    /\ NoLogger
    /\ NoCli
    /\ NoHistory
    /\ NoUnits

PoolInit == PoolStarted(<<>>)

\* worker, after processOperation has returned err: logError if err is
\* not nil, then the next turn of the loop
WorkerAfter(w, k, err) ==
    /\ preport' = [preport EXCEPT ![k] = err]
    /\ perrlog' = IF err # "ok" THEN Append(perrlog, otask[k].path)
                                ELSE perrlog
    /\ pworkers' = [pworkers EXCEPT ![w] = "idle"]
    /\ pbusy' = [pbusy EXCEPT ![w] = 0]
    /\ UNCHANGED pwg

\* worker: the select takes a task from p.opChan, or returns on stopChan
\* and on the closed queue; processOperation starts the goroutine that
\* calls HandleFileOperation
WorkerTake(w) ==
    /\ mode = "pool"
    /\ pworkers[w] = "idle"
    /\ \/ /\ pqueue # <<>>
          /\ pqueue' = Tail(pqueue)
          /\ pworkers' = [pworkers EXCEPT ![w] = "busy"]
          /\ pbusy' = [pbusy EXCEPT ![w] = Head(pqueue)]
          /\ opc' = [opc EXCEPT ![Head(pqueue)] = "handle"]
          /\ UNCHANGED pwg
       \/ /\ \/ pstopClosed
             \/ pqueue = <<>> /\ pqueueClosed > 0
          /\ pworkers' = [pworkers EXCEPT ![w] = "exited"]
          /\ pwg' = pwg - 1
          /\ UNCHANGED << pqueue, pbusy, opc >>
    /\ UNCHANGED << files, clock, otask, oinfo, otarget, otmp, owritten, oret,
                    olog, pcfg, pstarted, pstopped, pqueueClosed, pfieldNil,
                    pstopClosed, pcurrent, tcall, tpc, tret, preport, perrlog,
                    bufVars, outerVars, engineVars >>

\* a worker that returns when its task has failed
ProcessOperationDoneStopsOnError(w) ==
    /\ mode = "pool"
    /\ pworkers[w] = "busy"
    /\ opc[pbusy[w]] = "done"
    /\ WorkerAfter(w, pbusy[w], oret[pbusy[w]])
    /\ pstopped' = (oret[pbusy[w]] # "ok")
    /\ pstopClosed' = (oret[pbusy[w]] # "ok")
    /\ UNCHANGED << opsVars, pcfg, pstarted, pqueue, pqueueClosed,
                    pfieldNil, pcurrent, tcall, tpc, tret,
                    bufVars, outerVars, engineVars >>

\* processOperation: err := <-done, what HandleFileOperation returned
ProcessOperationDone(w) ==
    /\ mode = "pool"
    /\ pworkers[w] = "busy"
    /\ opc[pbusy[w]] = "done"
    /\ WorkerAfter(w, pbusy[w], oret[pbusy[w]])
    /\ UNCHANGED << opsVars, pcfg, pstarted, pstopped, pqueue, pqueueClosed,
                    pfieldNil, pstopClosed, pcurrent, tcall, tpc, tret,
                    bufVars, outerVars, engineVars >>

\* processOperation: <-ctx.Done(), the thirty minutes of the task being
\* over; the goroutine that calls HandleFileOperation is left running
ProcessOperationTimeout(w) ==
    /\ mode = "pool"
    /\ pworkers[w] = "busy"
    /\ WorkerAfter(w, pbusy[w], "timeout")
    /\ UNCHANGED << opsVars, pcfg, pstarted, pstopped, pqueue, pqueueClosed,
                    pfieldNil, pstopClosed, pcurrent, tcall, tpc, tret,
                    bufVars, outerVars, engineVars >>

NextPool ==
    \/ \E w \in WorkerIds : WorkerTake(w)
    \/ \E w \in WorkerIds : ProcessOperationDone(w)
    \/ \E w \in WorkerIds : ProcessOperationTimeout(w)
    \/ \E k \in Ops : HandleFileOperation(k)
    \/ \E k \in Ops : CopyResolve(k)
    \/ \E k \in Ops : CopyOpenSource(k)
    \/ \E k \in Ops : CopyCreateTemp(k)
    \/ \E k \in Ops : CopyWrite(k)
    \/ \E k \in Ops : CopySync(k)
    \/ \E k \in Ops : CopyRename(k)

SpecPool == PoolInit /\ [][NextPool]_vars

-----------------------------------------------------------------------------
(* SpecStop: the started processor of SpecPool, with its queued tasks,    *)
(* and one goroutine that calls Stop                                      *)

StopInit == PoolStarted(<<"Stop">>)

NextStop ==
    \/ NextPool
    \/ \E t \in Clients : StopSignal(t)
    \/ \E t \in Clients : StopWait(t)
    \/ \E t \in Clients : StopClose(t)

SpecStop == StopInit /\ [][NextStop]_vars

-----------------------------------------------------------------------------
(* SpecLog: goroutines that log through logDebug, logInfo, LogWarning and *)
(* logError, and the processLogs goroutine that empties loggerBuffer      *)

\* capacity of loggerBuffer
LogCap == 1

\* the levels of the messages logged together, one goroutine each
LogConfigs ==
    { <<"ERROR", "DEBUG", "ERROR">>,
      <<"INFO", "WARNING", "ERROR">>,
      <<"DEBUG", "INFO", "WARNING">>,
      <<"ERROR", "ERROR", "INFO">> }

Loggers == DOMAIN logCall

\* init has started processLogs; initLogger has given a logger, or has
\* failed and left the disabled one
LogInit ==
    /\ mode = "log"
    /\ EngineIdle
    /\ NoFileOperation
    /\ NoProcessor
    /\ NoBuffers
    /\ logDisabled \in BOOLEAN
    /\ logBuffer = <<>>
    /\ logCall \in LogConfigs
    /\ logFate = [t \in Loggers |-> "call"]
    /\ logWritten = <<>>
    /\ NoCli
    /\ NoHistory
    /\ NoUnits

\* select { case loggerBuffer <- msg: default: } of the levels below
\* error; a disabled logger takes no message
SendOrDrop(t) ==
    /\ mode = "log"
    /\ logFate[t] = "call"
    /\ IF ~logDisabled /\ Len(logBuffer) < LogCap
       THEN /\ logBuffer' = Append(logBuffer, t)
            /\ logFate' = [logFate EXCEPT ![t] = "queued"]
       ELSE /\ logFate' = [logFate EXCEPT ![t] = "dropped"]
            /\ UNCHANGED logBuffer
    /\ UNCHANGED << logDisabled, logCall, logWritten, opsVars, procVars,
                    poolVars, bufVars, cliVars, histVars, unitVars,
                    engineVars >>

logDebug(t) == logCall[t] = "DEBUG" /\ SendOrDrop(t)

logInfo(t) == logCall[t] = "INFO" /\ SendOrDrop(t)

LogWarning(t) == logCall[t] = "WARNING" /\ SendOrDrop(t)

\* logError: loggerBuffer <- msg, which waits while the buffer is full; a
\* disabled logger takes no message
logError(t) ==
    /\ mode = "log"
    /\ logCall[t] = "ERROR"
    /\ logFate[t] = "call"
    /\ IF logDisabled
       THEN /\ logFate' = [logFate EXCEPT ![t] = "dropped"]
            /\ UNCHANGED logBuffer
       ELSE /\ Len(logBuffer) < LogCap
            /\ logBuffer' = Append(logBuffer, t)
            /\ logFate' = [logFate EXCEPT ![t] = "queued"]
    /\ UNCHANGED << logDisabled, logCall, logWritten, opsVars, procVars,
                    poolVars, bufVars, cliVars, histVars, unitVars,
                    engineVars >>

\* processLogs: one message taken from loggerBuffer and written
processLogs ==
    /\ mode = "log"
    /\ logBuffer # <<>>
    /\ logBuffer' = Tail(logBuffer)
    /\ logWritten' = IF ~logDisabled THEN Append(logWritten, Head(logBuffer))
                                     ELSE logWritten
    /\ UNCHANGED << logDisabled, logCall, logFate, opsVars, procVars,
                    poolVars, bufVars, cliVars, histVars, unitVars,
                    engineVars >>

NextLog ==
    \/ \E t \in Loggers : logDebug(t)
    \/ \E t \in Loggers : logInfo(t)
    \/ \E t \in Loggers : LogWarning(t)
    \/ \E t \in Loggers : logError(t)
    \/ processLogs

SpecLog == LogInit /\ [][NextLog]_vars

-----------------------------------------------------------------------------
(* SpecRP: a resultProcessor used on its own -- goroutines that call add  *)
(* and close, and a receiver of the result channel                        *)

\* the SearchResult of a file of the tree
ResultOf(path) == SearchResultOf(path, Lstat(path))

AddCall(path) == [method |-> "add", result |-> ResultOf(path)]

CloseCall == [method |-> "close", result |-> NoResult]

\* the calls made on the processor, one goroutine each; close is called
\* once, as Search does
RPConfigs ==
    { << AddCall(Join(DirW, NameA)), AddCall(Join(DirW, NameB)), CloseCall >>,
      << AddCall(Join(DirW, NameA)), AddCall(Join(DirW, NameA)), CloseCall >>,
      << AddCall(Join(DirW, NameA)), AddCall(Join(DirW, NameB)),
         AddCall(Join(DirWT, NameA)), CloseCall >> }

\* newResultProcessor: an open result channel, nothing seen
RPInit ==
    /\ mode = "rp"
    /\ \E d \in BOOLEAN : opts = [DefaultOptions EXCEPT !.DeduplicateFiles = d]
    /\ patterns = EmptyCompiled
    /\ lowerCache = EmptyCache
    /\ stopClosed = FALSE
    /\ paths = <<>>
    /\ pathsClosed = 0
    /\ results = <<>>
    /\ resultsClosed = 0
    /\ sendOnClosed = {}
    /\ wpc = <<>>
    /\ wstack = <<>>
    /\ wcall = <<>>
    /\ wAfterStop = <<>>
    /\ mpc = <<>>
    /\ mbatch = <<>>
    /\ mi = <<>>
    /\ mexit = <<>>
    /\ mres = <<>>
    /\ mAfterStop = <<>>
    /\ seen = {}
    /\ mu = 0
    /\ addedDup = FALSE
    /\ cpc = "walkWait"
    /\ consumer = "reading"
    /\ delivered = <<>>
    /\ cur = NoFile
    /\ quickRes = FALSE
    /\ matchRes = FALSE
    /\ consRes = FALSE
    /\ reportRes = FALSE
    /\ NoFileOperation
    /\ NoBuffers
    /\ NoLogger
    /\ NoCli
    /\ NoHistory
    /\ NoUnits
    /\ pcfg = <<>>
    /\ pstarted = FALSE
    /\ pstopped = FALSE
    /\ pqueue = <<>>
    /\ pqueueClosed = 0
    /\ pfieldNil = FALSE
    /\ pstopClosed = FALSE
    /\ pwg = 0
    /\ pcurrent = 0
    /\ pworkers = <<>>
    /\ tcall \in RPConfigs
    /\ tpc = [t \in Clients |-> "call"]
    /\ tret = [t \in Clients |-> "running"]
    /\ pbusy = <<>>
    /\ preport = <<>>
    /\ perrlog = <<>>

\* what a step of a caller of the resultProcessor leaves alone
rpRest == << opts, patterns, lowerCache, stopClosed, paths, pathsClosed,
             wpc, wstack, wcall, wAfterStop, mpc, mbatch, mi, mexit, mres,
             mAfterStop, mu, cpc, matchVars, mode, opsVars, pcfg, pstarted,
             pstopped, pqueue, pqueueClosed, pfieldNil, pstopClosed, pwg,
             pcurrent, pworkers, tcall, pbusy, preport, perrlog, bufVars,
             outerVars >>

\* resultProcessor.add up to its send: with rp.dedupe the section under
\* rp.mu, which returns on a seen hash and else marks the hash as seen
AddSeen(t) ==
    /\ mode = "rp"
    /\ tcall[t].method = "add"
    /\ tpc[t] = "call"
    /\ IF opts.DeduplicateFiles /\ tcall[t].result.Hash \in seen
       THEN /\ Return(t, "returned")
            /\ addedDup' = TRUE
            /\ UNCHANGED seen
       ELSE /\ tpc' = [tpc EXCEPT ![t] = "send"]
            /\ seen' = IF opts.DeduplicateFiles
                       THEN seen \cup {tcall[t].result.Hash}
                       ELSE seen
            /\ UNCHANGED << tret, addedDup >>
    /\ UNCHANGED << results, resultsClosed, sendOnClosed, consumer, delivered,
                    rpRest >>

\* resultProcessor.add: rp.results <- result, which waits while the buffer
\* is full and panics on a closed channel
AddDeliver(t) ==
    /\ mode = "rp"
    /\ tcall[t].method = "add"
    /\ tpc[t] = "send"
    /\ \/ /\ resultsClosed = 0
          /\ Len(results) < opts.BufferSize
          /\ results' = Append(results, tcall[t].result)
          /\ Return(t, "returned")
          /\ UNCHANGED sendOnClosed
       \/ /\ resultsClosed > 0
          /\ sendOnClosed' = sendOnClosed \cup {"results"}
          /\ Return(t, "panic: send on closed channel")
          /\ UNCHANGED results
    /\ UNCHANGED << resultsClosed, seen, addedDup, consumer, delivered,
                    rpRest >>

\* resultProcessor.close: close(rp.results)
CloseResults(t) ==
    /\ mode = "rp"
    /\ tcall[t].method = "close"
    /\ tpc[t] = "call"
    /\ IF resultsClosed = 0
       THEN /\ resultsClosed' = 1
            /\ Return(t, "returned")
       ELSE /\ Return(t, "panic: close of closed channel")
            /\ UNCHANGED resultsClosed
    /\ UNCHANGED << results, sendOnClosed, seen, addedDup, consumer,
                    delivered, rpRest >>

\* the receiver of the result channel takes a result, or sees the channel
\* closed and empty
ReceiveResult ==
    /\ mode = "rp"
    /\ consumer = "reading"
    /\ \/ /\ results # <<>>
          /\ delivered' = Append(delivered, Head(results))
          /\ results' = Tail(results)
          /\ UNCHANGED consumer
       \/ /\ results = <<>>
          /\ resultsClosed > 0
          /\ consumer' = "finished"
          /\ UNCHANGED << results, delivered >>
    /\ UNCHANGED << resultsClosed, sendOnClosed, seen, addedDup, tpc, tret,
                    rpRest >>

NextRP ==
    \/ \E t \in Clients : AddSeen(t)
    \/ \E t \in Clients : AddDeliver(t)
    \/ \E t \in Clients : CloseResults(t)
    \/ ReceiveResult

SpecRP == RPInit /\ [][NextRP]_vars

-----------------------------------------------------------------------------
(* SpecCli: the Run function of the command line -- the range loop over   *)
(* the result channel of Search, then the --open step                     *)

\* the results a search of the tree can yield, one per file
CliFiles == {Join(DirWT, NameA), Join(DirW, NameX), Join(DirF, NameP)}

\* the streams of results without repetition
CliStreams ==
    UNION { { q \in [1..n -> CliFiles] :
                \A i, j \in 1..n : i # j => q[i] # q[j] } :
            n \in 0..Cardinality(CliFiles) }

CliInit ==
    /\ mode = "cli"
    /\ EngineIdle
    /\ NoFileOperation
    /\ NoProcessor
    /\ NoBuffers
    /\ NoLogger
    /\ NoHistory
    /\ NoUnits
    /\ cliOpen \in BOOLEAN
    /\ \E q \in CliStreams : cliResults = [i \in DOMAIN q |-> ResultOf(q[i])]
    /\ cliNext = 1
    /\ cliCancelled = FALSE
    /\ cliFound = <<>>
    /\ cliPc = "range"
    /\ cliRevealed = <<>>

cliRest ==
    << opsVars, procVars, poolVars, bufVars, logVars, histVars, unitVars,
       engineVars >>

\* the goroutine that waits for the interrupt signal: close(stopChan) and
\* cancel(); the search stops and its channel yields no more than the
\* results it already holds
CliInterrupt ==
    /\ mode = "cli"
    /\ cliPc = "range"
    /\ ~cliCancelled
    /\ cliCancelled' = TRUE
    /\ \E n \in (cliNext - 1)..Len(cliResults) :
            cliResults' = SubSeq(cliResults, 1, n)
    /\ UNCHANGED << cliOpen, cliNext, cliFound, cliPc, cliRevealed, cliRest >>

\* one pass of `for result := range results`: return when ctx is done,
\* skip a result that carries an error, else print it and append its path
\* to foundFiles
CliResult ==
    /\ mode = "cli"
    /\ cliPc = "range"
    /\ cliNext <= Len(cliResults)
    /\ IF cliCancelled
       THEN /\ cliPc' = "returned"
            /\ UNCHANGED << cliNext, cliFound >>
       ELSE /\ cliNext' = cliNext + 1
            /\ cliFound' = IF cliResults[cliNext].Error THEN cliFound
                           ELSE Append(cliFound, cliResults[cliNext].Path)
            /\ UNCHANGED cliPc
    /\ UNCHANGED << cliOpen, cliResults, cliCancelled, cliRevealed, cliRest >>

\* the end of the range loop: the total is printed and, with --open and a
\* non-empty foundFiles, openFileLocation(foundFiles[0]) is called
CliFinish ==
    /\ mode = "cli"
    /\ cliPc = "range"
    /\ cliNext > Len(cliResults)
    /\ cliPc' = "done"
    /\ cliRevealed' = IF cliOpen /\ Len(cliFound) > 0
                      THEN Append(cliRevealed, cliFound[1])
                      ELSE cliRevealed
    /\ UNCHANGED << cliOpen, cliResults, cliNext, cliCancelled, cliFound,
                    cliRest >>

NextCli ==
    \/ CliInterrupt
    \/ CliResult
    \/ CliFinish

SpecCli == CliInit /\ [][NextCli]_vars

-----------------------------------------------------------------------------
(* SpecGet: goroutines that copy files take a buffer from copyBufferPool  *)
(* and give it back, again and again                                      *)

\* goroutines inside copyFile at the same time
NumGetters == 2

Getters == DOMAIN gpc

\* everything but the copy buffer pool and the components checked alone
unitRest ==
    << opsVars, procVars, poolVars, readOut, logVars, cliVars, histVars,
       engineVars >>

GetInit ==
    /\ mode = "get"
    /\ EngineIdle
    /\ NoFileOperation
    /\ NoProcessor
    /\ NoBuffers
    /\ NoLogger
    /\ NoCli
    /\ NoHistory
    /\ NoBatch
    /\ NoResultBuffer
    /\ gpc = [g \in 1..NumGetters |-> "idle"]

\* Get: atomic.LoadInt32(&p.count) < p.maxSize; if not, a fresh buffer
GetLoad(g) ==
    /\ mode = "get"
    /\ gpc[g] = "idle"
    /\ gpc' = [gpc EXCEPT ![g] = IF copyCount < maxPoolSize THEN "pooled"
                                                            ELSE "holding"]
    /\ UNCHANGED << copyCount, unitRest, batchVars, rbVars >>

\* Get: p.pool.Get(), never nil since New is set, and
\* atomic.AddInt32(&p.count, 1)
GetAdd(g) ==
    /\ mode = "get"
    /\ gpc[g] = "pooled"
    /\ copyCount' = copyCount + 1
    /\ gpc' = [gpc EXCEPT ![g] = "holding"]
    /\ UNCHANGED << unitRest, batchVars, rbVars >>

\* Put: the buffer goes back to the sync.Pool while count < maxSize; the
\* counter is left as it is
Put(g) ==
    /\ mode = "get"
    /\ gpc[g] = "holding"
    /\ gpc' = [gpc EXCEPT ![g] = "idle"]
    /\ UNCHANGED << copyCount, unitRest, batchVars, rbVars >>

NextGet ==
    \/ \E g \in Getters : GetLoad(g)
    \/ \E g \in Getters : GetAdd(g)
    \/ \E g \in Getters : Put(g)

SpecGet == GetInit /\ [][NextGet]_vars

-----------------------------------------------------------------------------
(* SpecBatch: one BatchProcessor, a sequence of add calls and the closing *)
(* flush of the matcher that owns it                                      *)

\* the largest batch size tried
MaxBatchSize == 3

\* the longest sequence of add calls
MaxAdds == 5

\* the paths given to add
BatchPaths == {<<"a">>, <<"b">>}

BatchInit ==
    /\ mode = "batch"
    /\ EngineIdle
    /\ NoFileOperation
    /\ NoProcessor
    /\ NoBuffers
    /\ NoLogger
    /\ NoCli
    /\ NoHistory
    /\ NoGetters
    /\ NoResultBuffer
    /\ bpSize \in 1..MaxBatchSize
    /\ bpBatch = <<>>
    /\ bpCalls = <<>>
    /\ bpAdded = <<>>
    /\ bpFlushed = FALSE

\* flush: the callback gets the pending batch if it is not empty, and
\* the batch is emptied
flush(batch) ==
    IF Len(batch) > 0
    THEN /\ bpCalls' = Append(bpCalls, batch)
         /\ bpBatch' = <<>>
    ELSE /\ bpCalls' = bpCalls
         /\ bpBatch' = batch

\* an add that flushes only when the batch has grown beyond size
BatchAddFlushesLate(path) ==
    /\ mode = "batch"
    /\ ~bpFlushed
    /\ Len(bpAdded) < MaxAdds
    /\ bpAdded' = Append(bpAdded, path)
    /\ LET batch == Append(bpBatch, path)
       IN  IF Len(batch) > bpSize
           THEN flush(batch)
           ELSE /\ bpBatch' = batch
                /\ UNCHANGED bpCalls
    /\ UNCHANGED << bpSize, bpFlushed, copyCount, unitRest, getVars, rbVars >>

\* add: append the path, flush when the batch has size paths
BatchAdd(path) ==
    /\ mode = "batch"
    /\ ~bpFlushed
    /\ Len(bpAdded) < MaxAdds
    /\ bpAdded' = Append(bpAdded, path)
    /\ LET batch == Append(bpBatch, path)
       IN  IF Len(batch) >= bpSize
           THEN flush(batch)
           ELSE /\ bpBatch' = batch
                /\ UNCHANGED bpCalls
    /\ UNCHANGED << bpSize, bpFlushed, copyCount, unitRest, getVars, rbVars >>

\* the flush of the matcher that leaves its loop
BatchFlush ==
    /\ mode = "batch"
    /\ ~bpFlushed
    /\ flush(bpBatch)
    /\ bpFlushed' = TRUE
    /\ UNCHANGED << bpSize, bpAdded, copyCount, unitRest, getVars, rbVars >>

NextBatch ==
    \/ \E path \in BatchPaths : BatchAdd(path)
    \/ BatchFlush

SpecBatch == BatchInit /\ [][NextBatch]_vars

-----------------------------------------------------------------------------
(* SpecBuf: one ResultBuffer of the GUI, a sequence of Add and Flush      *)
(* calls by the goroutine that reads the results, while time passes       *)

\* Flush, "very small sets": 100 items, scaled
SmallSet == 2

\* 1000 items, scaled: the length of items at which Add flushes
ItemsFull == 3

\* "small sets" end at 1000 items; batchSize is 1000 as well
MediumSet == ItemsFull

batchSize == ItemsFull

\* "medium sets" end at 10000 items, scaled
LargeSet == ItemsFull + 2

\* chunkSize, 50000 items, scaled
chunkSize == ItemsFull + 1

\* the most items added to one buffer
MaxItems == 7

\* the items added, each known by its Path; the zero value of
\* FileListItem has the empty Path
RbItems == {"a.txt", "b.txt"}

ZeroItem == ""

\* the time since lastUpdate in milliseconds, as far as Add and Flush
\* tell it apart
Elapses == << 0, 100, 200, 1000, 1001, 2000 >>

timeSinceLastUpdate == Elapses[rbElapsed]

BufInit ==
    /\ mode = "rbuf"
    /\ EngineIdle
    /\ NoFileOperation
    /\ NoProcessor
    /\ NoBuffers
    /\ NoLogger
    /\ NoCli
    /\ NoHistory
    /\ NoGetters
    /\ NoBatch
    /\ rbItems = <<>>
    /\ rbChunks = <<>>
    /\ rbTotal = 0
    /\ rbFound = <<>>
    /\ rbLastCount = 0
    /\ rbElapsed = 1
    /\ rbAdded = <<>>

\* Flush: chunks grown to the required number of chunks
PreAllocated(chunks, required) ==
    IF Len(chunks) < required
    THEN chunks \o [c \in 1..(required - Len(chunks)) |-> <<>>]
    ELSE chunks

RECURSIVE AddToChunks(_, _, _, _)
\* Flush: the loop that appends the batch to the chunks, chunkIndex and
\* itemIndex counted from 0
AddToChunks(chunks, batch, chunkIndex, itemIndex) ==
    IF batch = <<>> THEN chunks
    ELSE LET ci == IF itemIndex = chunkSize THEN chunkIndex + 1 ELSE chunkIndex
             ii == IF itemIndex = chunkSize THEN 0 ELSE itemIndex
         IN  AddToChunks([chunks EXCEPT ![ci + 1] = Append(@, Head(batch))],
                         Tail(batch), ci, ii + 1)

\* Flush: *foundFiles grown to totalItems and the batch copied to it from
\* index lastCount on
UpdatedFound(found, batch, total, lastCount) ==
    IF Len(found) < total
    THEN [i \in 1..total |->
            IF i > lastCount /\ i <= lastCount + Len(batch)
            THEN batch[i - lastCount]
            ELSE IF i <= Len(found) THEN found[i] ELSE ZeroItem]
    ELSE found

\* Flush: is the list refreshed?
shouldUpdate(currentCount, newItems, elapsed) ==
    IF currentCount < SmallSet THEN newItems > 0
    ELSE IF currentCount < MediumSet THEN newItems > 0 /\ elapsed >= 100
    ELSE IF currentCount < LargeSet
    THEN (newItems >= batchSize /\ elapsed >= 100) \/ elapsed >= 1000
    ELSE (newItems >= batchSize * 2 /\ elapsed >= 200) \/ elapsed >= 2000

\* Flush with the given pending items
Flush(items) ==
    IF Len(items) = 0
    THEN /\ rbItems' = items
         /\ UNCHANGED << rbChunks, rbTotal, rbFound, rbLastCount, rbElapsed >>
    ELSE LET currentCount == rbTotal + Len(items)
             required == (currentCount + chunkSize - 1) \div chunkSize
         IN  /\ rbItems' = <<>>
             /\ rbChunks' = AddToChunks(PreAllocated(rbChunks, required), items,
                                        rbTotal \div chunkSize,
                                        rbTotal % chunkSize)
             /\ rbTotal' = currentCount
             /\ rbFound' = UpdatedFound(rbFound, items, currentCount,
                                        rbLastCount)
             /\ IF shouldUpdate(currentCount, currentCount - rbLastCount,
                                timeSinceLastUpdate)
                THEN /\ rbLastCount' = currentCount
                     /\ rbElapsed' = 1
                ELSE UNCHANGED << rbLastCount, rbElapsed >>

\* Add: append the item; Flush if items is full or the last update is
\* more than a second ago
RbAdd(item) ==
    /\ mode = "rbuf"
    /\ Len(rbAdded) < MaxItems
    /\ rbAdded' = Append(rbAdded, item)
    /\ LET items == Append(rbItems, item)
       IN  IF Len(items) >= ItemsFull \/ timeSinceLastUpdate > 1000
           THEN Flush(items)
           ELSE /\ rbItems' = items
                /\ UNCHANGED << rbChunks, rbTotal, rbFound, rbLastCount,
                                rbElapsed >>
    /\ UNCHANGED << copyCount, unitRest, getVars, batchVars >>

\* a call of Flush
RbFlush ==
    /\ mode = "rbuf"
    /\ Flush(rbItems)
    /\ UNCHANGED << rbAdded, copyCount, unitRest, getVars, batchVars >>

\* time passes
RbTick ==
    /\ mode = "rbuf"
    /\ rbElapsed < Len(Elapses)
    /\ rbElapsed' = rbElapsed + 1
    /\ UNCHANGED << rbItems, rbChunks, rbTotal, rbFound, rbLastCount, rbAdded,
                    copyCount, unitRest, getVars, batchVars >>

\* GetItem, index counted from 0
GetItem(index) ==
    IF index < 0 \/ index >= rbTotal
    THEN [item |-> ZeroItem, ok |-> FALSE]
    ELSE LET ci == index \div chunkSize
             ii == index % chunkSize
         IN  IF ci >= Len(rbChunks) \/ ii >= Len(rbChunks[ci + 1])
             THEN [item |-> ZeroItem, ok |-> FALSE]
             ELSE [item |-> rbChunks[ci + 1][ii + 1], ok |-> TRUE]

GetTotalItems == rbTotal

NextBuf ==
    \/ \E item \in RbItems : RbAdd(item)
    \/ RbFlush
    \/ RbTick

SpecBuf == BufInit /\ [][NextBuf]_vars

-----------------------------------------------------------------------------
(* Properties settled after the first ten *)

\* what the spec's fingerprint is taken over: size, modtime, first KiB
ContentKey(path) == << Lstat(path).size, Lstat(path).age, Lstat(path).head >>

\* C11 -- with DeduplicateFiles, two distinct files with identical size,
\* modification time and first KiB give one result: no two results of the
\* stream are distinct paths with the same size, modtime and leading bytes.
C11_SameContentOnce ==
    (mode = "search" /\ opts.DeduplicateFiles) =>
        \A i, j \in 1..Len(ResultStream) :
            ResultStream[i].Path # ResultStream[j].Path =>
                ContentKey(ResultStream[i].Path) # ContentKey(ResultStream[j].Path)

\* strings.HasSuffix(path, ".tmp")
IsTemp(path) == TrimSuffix(path, <<".", "t", "m", "p">>) # path

\* the temporary files of fs that no running copy owns
LeftoverTemps(fs, owned) ==
    {p \in DOMAIN fs : IsTemp(p) /\ \A j \in DOMAIN owned : owned[j] # p}

\* copyFile of operation k returns success for a copy that was not skipped
CopySucceeds(k) == ~olog[k].copied /\ olog'[k].copied

\* C12 -- Copy atomicity (success): when copyFile returns success for a copy
\* that was not skipped, the file at the final target path has exactly the
\* source's bytes and the copy has left no <target>.tmp behind.
C12_CopySuccess ==
    [][ mode = "ops" =>
          \A k \in Ops :
              (otask[k].build = "tmp" /\ CopySucceeds(k)) =>
                  /\ Exists(files', otarget[k])
                  /\ files'[otarget[k]] = SourceFiles[otask[k].path]
                  /\ TmpOf(otarget[k]) \notin LeftoverTemps(files', otmp') ]_vars

\* C12 witness: a copy through the temporary file replaced the old a.txt by
\* the two bytes of its source and returned success; no .tmp is left.
C12_Witness ==
    /\ mode = "ops"
    /\ \E k \in Ops :
        /\ otask[k].build = "tmp"
        /\ otask[k].Operation = "CopyFiles"
        /\ otask[k].ConflictPolicy = "Overwrite"
        /\ oret[k] = "ok"
        /\ olog[k].copied
        /\ olog[k].over
        /\ owritten[k] = 2
        /\ files[TargetA] = SourceFiles[otask[k].path]
        /\ ~Exists(files, TmpOf(TargetA))

\* C13 -- Copy atomicity (failure): after copyFile returns an error, the
\* call has neither created nor rewritten the file at the final target path
\* and the temporary file it created is gone.
C13_CopyFailure ==
    mode = "ops" =>
        \A k \in Ops :
            olog[k].copyErr =>
                /\ ~olog[k].wroteTarget
                /\ otmp[k] = <<>>
                /\ LeftoverTemps(files, otmp) = {}

\* C14 -- Conflict policy skip: under Skip an existing target file is never
\* written: once a.txt exists in the target directory its content stays.
C14_SkipKeepsTarget ==
    [][ ( /\ mode = "ops"
          /\ \A k \in Ops : otask[k].ConflictPolicy = "Skip"
          /\ Exists(files, TargetA) ) =>
            /\ Exists(files', TargetA)
            /\ files'[TargetA] = files[TargetA] ]_vars

\* C15 -- Conflict policy rename: under Rename the path at which a target
\* file is created is absent from the filesystem when it is created.
C15_RenameTargetAbsent ==
    mode = "ops" =>
        \A k \in Ops : otask[k].ConflictPolicy = "Rename" => ~olog[k].over

\* C16 as stated -- moveFile returns success if and only if the direct
\* rename succeeded, or the copy succeeded and the removal of the source
\* succeeded.
C16_MoveIff ==
    mode = "ops" =>
        \A k \in Ops :
            (otask[k].Operation = "MoveFiles" /\ opc[k] = "done") =>
                ( oret[k] = "ok" <=>
                    \/ olog[k].renamed
                    \/ olog[k].copied /\ olog[k].removed )

\* C16 amended -- moveFile returns success if and only if resolveConflict
\* returned the skip sentinel, or the direct rename succeeded, or copyFile
\* returned nil (a copy, or a copy skipped by the policy) and the removal of
\* the source succeeded.
C16_MoveIffOrSkipped ==
    mode = "ops" =>
        \A k \in Ops :
            (otask[k].Operation = "MoveFiles" /\ opc[k] = "done") =>
                ( oret[k] = "ok" <=>
                    \/ olog[k].skipped
                    \/ olog[k].renamed
                    \/ (olog[k].copied \/ olog[k].copySkipped) /\ olog[k].removed )

\* C16 witness: a move whose rename failed copied the source to the target,
\* removed the source and returned success.
C16_Witness ==
    /\ mode = "ops"
    /\ \E k \in Ops :
        /\ otask[k].Operation = "MoveFiles"
        /\ opc[k] = "done"
        /\ oret[k] = "ok"
        /\ ~olog[k].renamed
        /\ olog[k].copied
        /\ olog[k].removed
        /\ ~Exists(files, otask[k].path)

\* caller t returns from its call in this step
Returns(t) == tpc[t] # "done" /\ tpc'[t] = "done"

\* C17 -- Start is guarded by the state machine: on a started processor it
\* fails with "already started", on a stopped one it fails, and in both
\* cases it spawns no worker and leaves the processor's state unchanged.
C17_StartGuarded ==
    [][ mode = "proc" =>
          \A t \in Clients :
              (tcall[t] = "Start" /\ Returns(t) /\ (pstarted \/ pstopped)) =>
                  /\ tret'[t] = IF pstarted THEN "processor already started"
                                ELSE "processor has been stopped"
                  /\ pworkers' = pworkers
                  /\ pwg' = pwg
                  /\ pcurrent' = pcurrent
                  /\ pstarted' = pstarted
                  /\ pstopped' = pstopped
                  /\ pqueue' = pqueue ]_vars

\* C17 witness: of two Start calls one started the workers and the other
\* failed with "already started"; the pool has its configured size.
C17_Witness ==
    /\ mode = "proc"
    /\ \E t, u \in Clients :
        /\ tret[t] = "nil"
        /\ tcall[t] = "Start"
        /\ tret[u] = "processor already started"
    /\ Len(pworkers) = pcfg.Workers

\* C18 -- Stopped is terminal: once Stop has set the processor stopped, no
\* Add places a task in the queue and every Add that returns returns an
\* error, whether it started before or after the Stop.
C18_StoppedIsTerminal ==
    [][ (mode = "proc" /\ pstopped) =>
          /\ Len(pqueue') <= Len(pqueue)
          /\ \A t \in Clients :
                (tcall[t] = "Add" /\ Returns(t)) => tret'[t] # "nil" ]_vars

\* C19 -- when a Stop call has returned, every worker goroutine has exited
\* and the queue is closed, also with concurrent Add calls and a concurrent
\* second Stop.
C19_StopJoins ==
    mode = "proc" =>
        \A t \in Clients :
            (tcall[t] = "Stop" /\ tpc[t] = "done") =>
                /\ LiveWorkers = {}
                /\ pqueueClosed > 0

\* C20 -- the worker goroutines of a processor never number more than
\* 2 * Workers.
C20_WorkerMaximum ==
    mode = "proc" => Cardinality(LiveWorkers) <= 2 * pcfg.Workers

StepOfOperation(k) ==
    \/ opc'[k] # opc[k]
    \/ owritten'[k] # owritten[k]

\* C22: once processOperation has reported the timeout of a task, the task
\* changes the filesystem no more; the step that reports it leaves the
\* processor running and its worker waiting for the next task.
C22_TimeoutCancelsTask ==
    [][mode = "pool" =>
        \A k \in Ops :
            /\ (preport[k] = "timeout" /\ StepOfOperation(k)) => files' = files
            /\ (preport[k] = "none" /\ preport'[k] = "timeout") =>
                /\ pstopped' = pstopped
                /\ pstopClosed' = pstopClosed
                /\ \A w \in WorkerIds :
                    pbusy[w] = k => pworkers'[w] = "idle"]_vars

\* the search is over: the result stream is closed, or every file
\* operation queued by the search has returned
SearchOver ==
    \/ mode = "search" /\ resultsClosed > 0
    \/ mode \in {"ops", "pool"} /\ \A k \in Ops : opc[k] = "done"

\* C23: after the search no buffer of the read-buffer pool is outstanding
\* and the counter of the copy-buffer pool has its value of before the
\* search.
C23_BuffersReturned == SearchOver => readOut = 0 /\ copyCount = 0

\* C24: a call of logError ends with its message in the log buffer, after
\* waiting for room when the buffer is full; a call of logDebug, logInfo or
\* LogWarning is never kept waiting, and with a full buffer it ends with
\* its message dropped and the buffer as it was.
C24_DropPolicy ==
    [][mode = "log" =>
        \A t \in Loggers :
            /\ (logCall[t] # "ERROR" /\ logFate[t] = "call") =>
                    ENABLED SendOrDrop(t)
            /\ (logFate[t] = "call" /\ logFate'[t] # "call") =>
                    IF logCall[t] = "ERROR"
                    THEN /\ logFate'[t] = "queued"
                         /\ logBuffer' = Append(logBuffer, t)
                    ELSE Len(logBuffer) = LogCap =>
                            /\ logFate'[t] = "dropped"
                            /\ logBuffer' = logBuffer]_vars

\* C25: the result channel is closed once, by the call of close; an add
\* that begins after the close returns at once as a no-op: it neither
\* changes the channel nor goes on to a send, and no add ends in a panic
\* after the close.
C25_AddAfterClose ==
    [][mode = "rp" =>
        /\ resultsClosed' <= 1
        /\ \A t \in Clients :
            /\ (tcall[t].method = "close" /\ tpc'[t] = "done") =>
                    resultsClosed' = 1
            /\ (tcall[t].method = "add" /\ tpc[t] = "call"
                    /\ resultsClosed > 0 /\ tpc'[t] # "call") =>
                    /\ tpc'[t] = "done"
                    /\ tret'[t] = "returned"
                    /\ results' = results
                    /\ sendOnClosed' = {}]_vars

\* C26: with FollowSymlinks off no symbolic link is listed as a directory
\* by a walker and no symbolic link is a path of the result stream.
C26_SymlinksSkipped ==
    (mode = "search" /\ ~opts.FollowSymlinks) =>
        /\ \A w \in Walkers : \A i \in 1..Len(wstack[w]) :
                wstack[w][i].dir \notin Symlinks
        /\ \A i \in 1..Len(ResultStream) : ResultStream[i].Path \notin Symlinks

\* the directories from a root of the search down to the one that holds path
DirsAbove(path, o) ==
    { SubSeq(path, 1, i - 1) : i \in
        { j \in 2..Len(path) :
            /\ path[j] = "/"
            /\ \E r \in 1..Len(o.RootDirs) :
                    HasPrefix(SubSeq(path, 1, j - 1), o.RootDirs[r]) } }

\* the directories the walkers are to skip
StatedSkip(dir, o) ==
    \/ o.ExcludeHidden /\ Head(Base(dir)) = "."
    \/ Base(dir) \in skipDirs
    \/ \E e \in 1..Len(o.ExcludeDirs) :
            /\ Len(o.ExcludeDirs[e]) <= Len(dir)
            /\ SubSeq(dir, 1, Len(o.ExcludeDirs[e])) = o.ExcludeDirs[e]

\* C27: no walker lists a directory it is to skip (a root or a
\* subdirectory), and no path sent into the paths channel lies under one.
C27_SkippedDirectories ==
    [][mode = "search" =>
        /\ \A w \in Walkers : \A i \in 1..Len(wstack'[w]) :
                ~StatedSkip(wstack'[w][i].dir, opts)
        /\ Len(paths') > Len(paths) =>
                \A d \in DirsAbove(paths'[Len(paths')], opts) :
                    ~StatedSkip(d, opts)]_vars

\* the search of /h that excludes /h/e is over: the walker has passed .c,
\* build (skipped) and e (skipped), and the files of /h and /h/.c, and they
\* only, have been delivered
C27_Witness ==
    /\ mode = "search"
    /\ opts.RootDirs = <<DirH>>
    /\ opts.ExcludeDirs = <<Join(DirH, NameE)>>
    /\ AllWalkersExited
    /\ consumer = "finished"
    /\ {delivered[i].Path : i \in 1..Len(delivered)} =
            {Join(Join(DirH, NameDotC), NameA), Join(DirH, NameA)}

\* the files of /f that the search reaches and that pass its pattern and
\* constraint tests
MatchedInF ==
    { p \in {Join(DirF, NameP), Join(DirF, NameQ)} :
        /\ \E r \in 1..Len(opts.RootDirs) : HasPrefix(p, opts.RootDirs[r])
        /\ processAccepts(p, Lstat(p), patterns, opts, lowerCache) }

\* C28: once a search that was not stopped has closed its result stream,
\* every matched file whose fingerprint computation failed is in the stream
\* with its Error field set.
C28_FingerprintErrorDelivered ==
    (mode = "search" /\ resultsClosed > 0 /\ ~stopClosed) =>
        \A p \in MatchedInF :
            HashFails(p) =>
                \E i \in 1..Len(ResultStream) :
                    /\ ResultStream[i].Path = p
                    /\ ResultStream[i].Error

\* the files of /m that a search of /m reports when it takes the regular
\* fingerprint path for every file
RegularReport ==
    { p \in {Join(DirM, NameA), Join(DirM, NameG), Join(DirM, NameN)} :
        /\ shouldProcessFile(p, opts)
        /\ processAccepts(p, Lstat(p), patterns, opts, lowerCache) }

\* C29: a search of /m that was not stopped reports, with UseMMap on as
\* with UseMMap off, exactly the files the regular path reports.
C29_MMapSameReport ==
    (mode = "search" /\ opts.RootDirs = <<DirM>> /\ consumer = "finished"
        /\ ~stopClosed) =>
        {delivered[i].Path : i \in 1..Len(delivered)} = RegularReport

\* the matches the search produced: the results without an error
CliMatches == { i \in 1..Len(cliResults) : ~cliResults[i].Error }

\* C30: when the command line has run to its end, it has asked the host to
\* reveal a file location if and only if --open was given and the search
\* produced exactly one match.
C30_OpenIffOneMatch ==
    (mode = "cli" /\ cliPc = "done") =>
        (cliRevealed # <<>> <=> (cliOpen /\ Cardinality(CliMatches) = 1))

\* every walker and every matcher has returned and the result channel is
\* closed
Terminated ==
    /\ \A w \in Walkers : wpc[w] = "done"
    /\ \A m \in Matchers : mpc[m] = "done"
    /\ resultsClosed > 0

\* C31: a Search whose consumer keeps reading terminates, stopped or not:
\* unless the consumer gives up reading, all walkers and matchers exit and
\* the result channel is closed.
C31_SearchTerminates == <>(consumer = "stopped" \/ Terminated)

\* C31 witness: a stopped Search with a file operation has ended -- Stop
\* has returned to the closer, the stream is closed and read to its end.
C31_Witness ==
    /\ mode = "search"
    /\ UsesFileOp
    /\ stopClosed
    /\ Terminated
    /\ tpc[StopCaller] = "done"
    /\ consumer = "finished"

\* how often a path was sent into paths, handed to a batch callback
Sent(p) == IF p \in DOMAIN sentPaths THEN sentPaths[p] ELSE 0

Handed(p) == IF p \in DOMAIN handedPaths THEN handedPaths[p] ELSE 0

\* the result stream holds a result for the path
InStream(p) == \E i \in 1..Len(ResultStream) : ResultStream[i].Path = p

\* C32: in a search that was not stopped no path is lost or duplicated in
\* the pipeline: a path is handed to a batch callback at most as often as
\* it was sent into paths, and once the result channel is closed exactly as
\* often; and every sent file that passes the pattern and constraint
\* checks is in the result stream by then.
C32_NoPathLostOrDuplicated ==
    (mode = "search" /\ ~stopClosed) =>
        /\ \A p \in DOMAIN handedPaths : Handed(p) <= Sent(p)
        /\ resultsClosed > 0 =>
               \A p \in DOMAIN sentPaths :
                   /\ Handed(p) = Sent(p)
                   /\ processAccepts(p, Lstat(p), patterns, opts, lowerCache)
                          => InStream(p)

\* C33: whatever the interleaving of concurrent Add and Stop calls, no Add
\* ends in a send on the closed operation queue.
C33_AddNeverSendsOnClosed ==
    mode = "proc" =>
        \A t \in Clients :
            tcall[t] = "Add" => tret[t] # "panic: send on closed channel"

\* Stop has returned to its caller
StopReturned == \E t \in Clients : tcall[t] = "Stop" /\ tpc[t] = "done"

\* C34: when Stop returns, HandleFileOperation has been invoked for every
\* task that Add queued with success: no task is still in the queue.
C34_StopRunsQueuedTasks ==
    (mode = "pool" /\ StopReturned) => \A k \in Ops : opc[k] # "queued"

\* C35: when Stop returns, no file operation that a worker started is
\* still executing.
C35_StopLeavesNothingRunning ==
    (mode = "pool" /\ StopReturned) =>
        \A k \in Ops : opc[k] \in {"queued", "done"}

\* the step removes the source of task k, or renames it away
SourceGone(k) == Exists(files, otask[k].path) /\ ~Exists(files', otask[k].path)

\* C36: a move never loses data: a step of moveFile that removes its source
\* or renames it away leaves the source's content at a path of the target
\* directory, and no step of moveFile changes a target file that another
\* task has written, whatever the conflict policy and the interleaving.
C36_MoveNeverLosesData ==
    [][mode = "ops" =>
        \A k \in Ops :
            (otask[k].Operation = "MoveFiles" /\ StepOfOperation(k)) =>
                /\ SourceGone(k) =>
                       \E p \in DOMAIN files' :
                           /\ HasPrefix(p, otask[k].TargetDir)
                           /\ files'[p] = files[otask[k].path]
                /\ \A j \in Ops \ {k} :
                       (olog[j].wroteTarget /\ Exists(files, otarget[j])) =>
                           /\ Exists(files', otarget[j])
                           /\ files'[otarget[j]] = files[otarget[j]]]_vars

\* C37: an Add that found the queue full and spawned one more worker
\* returns "operation queue is full" only if the queue is still full then,
\* and it spawns at most one worker.
C37_SpawnThenRetry ==
    [][mode = "proc" =>
        \A t \in Clients :
            (tcall[t] = "Add" /\ tpc[t] = "spawn" /\ Returns(t)) =>
                /\ Len(pworkers') <= Len(pworkers) + 1
                /\ (tret'[t] = "operation queue is full" /\ pqueueClosed = 0)
                       => Len(pqueue) >= pcfg.MaxQueueSize]_vars

\* C38: the counter of the copy buffer pool never exceeds maxPoolSize,
\* however concurrent Get and Put calls interleave.
C38_PoolCounterBounded == mode = "get" => copyCount <= maxPoolSize

RECURSIVE Flatten(_)
\* the batches of a sequence of callback invocations, one after another
Flatten(calls) ==
    IF calls = <<>> THEN <<>> ELSE Head(calls) \o Flatten(Tail(calls))

\* number of callback invocations for n paths: one per full batch, one
\* more by the closing flush if paths remain
CallsFor(n, size, closed) ==
    (n \div size) + (IF closed /\ n % size # 0 THEN 1 ELSE 0)

\* C39: after any sequence of add calls, closed by flush or not, the
\* callback was invoked once per full batch of size paths and once more by
\* the flush if and only if paths remained; the batches delivered, followed
\* by the pending batch, are the added paths in insertion order; and the
\* pending batch holds fewer than size paths.
C39_BatchContract ==
    mode = "batch" =>
        /\ Len(bpBatch) < bpSize
        /\ Flatten(bpCalls) \o bpBatch = bpAdded
        /\ Len(bpCalls) = CallsFor(Len(bpAdded), bpSize, bpFlushed)
        /\ \A i \in 1..Len(bpCalls) :
               IF i <= Len(bpAdded) \div bpSize
               THEN Len(bpCalls[i]) = bpSize
               ELSE Len(bpCalls[i]) = Len(bpAdded) % bpSize
        /\ bpFlushed => bpBatch = <<>>

\* C39 witness: five paths through a BatchProcessor of size 2 -- two full
\* batches from add and the remaining path from the closing flush.
C39_Witness ==
    /\ mode = "batch"
    /\ bpSize = 2
    /\ bpFlushed
    /\ Len(bpAdded) = 5
    /\ Len(bpCalls) = 3
    /\ bpCalls[3] = << bpAdded[5] >>

\* C40: after any sequence of Add and Flush calls, for every index below
\* GetTotalItems both GetItem and foundFiles give the item added at that
\* position, whether or not a flush refreshed the list.
C40_ItemsInOrder ==
    mode = "rbuf" =>
        \A i \in 0..(GetTotalItems - 1) :
            /\ GetItem(i) = [item |-> rbAdded[i + 1], ok |-> TRUE]
            /\ Len(rbFound) > i
            /\ rbFound[i + 1] = rbAdded[i + 1]

====
